---- MODULE Spec2Model ----
(***************************************************************************)
(* A model of go-crossplane: the NGINX configuration lexer (tokenize and   *)
(* brace balancing), the analyser, the recursive-descent parser with its   *)
(* include queue, the combiner and the builder.  Parse is modelled one     *)
(* token receive at a time: the recursion of parser.parse is an explicit   *)
(* stack of frames.                                                        *)
(***************************************************************************)
EXTENDS Integers, Sequences, FiniteSets, TLC

(***************************************************************************)
(* Go pointers (to int, string, []int, []Directive) and the error          *)
(* interface: Nil or a one-element tuple holding the value.                *)
(***************************************************************************)
Nil == <<>>
Some(x) == <<x>>
Deref(p) == p[1]

Range(s) == {s[i] : i \in DOMAIN s}

(* strings.HasPrefix, strings.HasSuffix, strings.TrimPrefix, TrimSuffix *)
HasPrefix(s, p) == Len(s) >= Len(p) /\ SubSeq(s, 1, Len(p)) = p
HasSuffix(s, p) == Len(s) >= Len(p) /\ SubSeq(s, Len(s) - Len(p) + 1, Len(s)) = p
TrimPrefix(s, p) == IF HasPrefix(s, p) THEN SubSeq(s, Len(p) + 1, Len(s)) ELSE s
TrimSuffix(s, p) == IF HasSuffix(s, p) THEN SubSeq(s, 1, Len(s) - Len(p)) ELSE s

(* unicode.IsSpace on the characters the model uses *)
IsSpaceChar(c) == c \in {" ", "\t", "\n", "\r", "\f"}

RECURSIVE TrimLeftSpace(_)
TrimLeftSpace(s) ==
  IF Len(s) > 0 /\ IsSpaceChar(SubSeq(s, 1, 1))
  THEN TrimLeftSpace(SubSeq(s, 2, Len(s)))
  ELSE s

RECURSIVE TrimRightSpace(_)
TrimRightSpace(s) ==
  IF Len(s) > 0 /\ IsSpaceChar(SubSeq(s, Len(s), Len(s)))
  THEN TrimRightSpace(SubSeq(s, 1, Len(s) - 1))
  ELSE s

(* strings.ToLower on ASCII letters *)
UpperLetters == "ABCDEFGHIJKLMNOPQRSTUVWXYZ"
LowerLetters == "abcdefghijklmnopqrstuvwxyz"
LowerChar(c) ==
  IF \E i \in 1..Len(UpperLetters) : SubSeq(UpperLetters, i, i) = c
  THEN LET i == CHOOSE j \in 1..Len(UpperLetters) : SubSeq(UpperLetters, j, j) = c
       IN  SubSeq(LowerLetters, i, i)
  ELSE c

RECURSIVE ToLower(_)
ToLower(s) ==
  IF Len(s) = 0 THEN s
  ELSE LowerChar(SubSeq(s, 1, 1)) \o ToLower(SubSeq(s, 2, Len(s)))

(* util.go: contains over a slice, validFlag *)
contains(xs, x) == \E i \in DOMAIN xs : xs[i] = x

(* a validFlag that tells upper case from lower case *)
validFlagCaseSensitive(s) == s = "on" \/ s = "off"

validFlag(s) == LET l == ToLower(s) IN l = "on" \/ l = "off"

(***************************************************************************)
(* ParseError and its rendering.  Error() dereferences e.file without a    *)
(* nil check, so rendering an error whose file is nil is a nil-pointer     *)
(* panic; ErrorPanics says when.  Other errors (I/O, glob) are plain.      *)
(***************************************************************************)
ParseError(what, file, line) ==
  [isParseError |-> TRUE, what |-> what, file |-> file, line |-> line]

IOError(what) ==
  [isParseError |-> FALSE, what |-> what, file |-> Nil, line |-> Nil]

ErrorPanics(e) == e.isParseError /\ e.file = Nil

ErrorString(e) ==
  IF ~e.isParseError THEN e.what
  ELSE IF e.line # Nil
       THEN e.what \o " in " \o Deref(e.file) \o ":" \o ToString(Deref(e.line))
       ELSE e.what \o " in " \o Deref(e.file)

(***************************************************************************)
(* The directive catalogue.  A bit mask is the set of the names of its     *)
(* bits: (mask & flag) != 0 is membership.  Only the entries the inputs    *)
(* of the model can name are reproduced; every other name is unknown.      *)
(***************************************************************************)
ngxAnyConf ==
  {"ngxMainConf", "ngxEventConf", "ngxMailMainConf", "ngxMailSrvConf",
   "ngxStreamMainConf", "ngxStreamSrvConf", "ngxStreamUpsConf",
   "ngxHttpMainConf", "ngxHttpSrvConf", "ngxHttpLocConf", "ngxHttpUpsConf"}

(* the bit (mask >> n) & 1 names, for n = 0..7; bit 7 (Take7) is never set *)
ArgBit(n) ==
  CASE n = 0 -> "ngxConfNoArgs"
    [] n = 1 -> "ngxConfTake1"
    [] n = 2 -> "ngxConfTake2"
    [] n = 3 -> "ngxConfTake3"
    [] n = 4 -> "ngxConfTake4"
    [] n = 5 -> "ngxConfTake5"
    [] n = 6 -> "ngxConfTake6"
    [] OTHER -> "ngxConfTake7"

(* blockCtx.key: strings.Join(c, ">") *)
RECURSIVE key(_)
key(c) ==
  IF Len(c) = 0 THEN ""
  ELSE IF Len(c) = 1 THEN c[1]
  ELSE c[1] \o ">" \o key(Tail(c))

contexts ==
  [k \in {key(<<>>), key(<<"events">>), key(<<"mail">>), key(<<"mail", "server">>),
          key(<<"stream">>), key(<<"stream", "server">>),
          key(<<"stream", "upstream">>), key(<<"http">>),
          key(<<"http", "server">>), key(<<"http", "location">>),
          key(<<"http", "upstream">>), key(<<"http", "server", "if">>),
          key(<<"http", "location", "if">>),
          key(<<"http", "location", "limit_except">>)} |->
     CASE k = key(<<>>) -> "ngxMainConf"
       [] k = key(<<"events">>) -> "ngxEventConf"
       [] k = key(<<"mail">>) -> "ngxMailMainConf"
       [] k = key(<<"mail", "server">>) -> "ngxMailSrvConf"
       [] k = key(<<"stream">>) -> "ngxStreamMainConf"
       [] k = key(<<"stream", "server">>) -> "ngxStreamSrvConf"
       [] k = key(<<"stream", "upstream">>) -> "ngxStreamUpsConf"
       [] k = key(<<"http">>) -> "ngxHttpMainConf"
       [] k = key(<<"http", "server">>) -> "ngxHttpSrvConf"
       [] k = key(<<"http", "location">>) -> "ngxHttpLocConf"
       [] k = key(<<"http", "upstream">>) -> "ngxHttpUpsConf"
       [] k = key(<<"http", "server", "if">>) -> "ngxHttpSifConf"
       [] k = key(<<"http", "location", "if">>) -> "ngxHttpLifConf"
       [] OTHER -> "ngxHttpLmtConf"]

directives ==
  [d \in {"accept_mutex", "daemon", "events", "health_check", "http", "if",
          "include", "listen", "location", "server", "state", "try_files"} |->
     CASE d = "accept_mutex" ->
            << {"ngxEventConf", "ngxConfFlag"} >>
       [] d = "daemon" ->
            << {"ngxMainConf", "ngxDirectConf", "ngxConfFlag"} >>
       [] d = "health_check" ->
            << {"ngxHttpLocConf", "ngxConfAny"},
               {"ngxStreamSrvConf", "ngxConfAny"} >>
       [] d = "state" ->
            << {"ngxHttpUpsConf", "ngxConfTake1"},
               {"ngxStreamUpsConf", "ngxConfTake1"} >>
       [] d = "try_files" ->
            << {"ngxHttpSrvConf", "ngxHttpLocConf", "ngxConf2More"} >>
       [] d = "events" ->
            << {"ngxMainConf", "ngxConfBlock", "ngxConfNoArgs"} >>
       [] d = "http" ->
            << {"ngxMainConf", "ngxConfBlock", "ngxConfNoArgs"} >>
       [] d = "if" ->
            << {"ngxHttpSrvConf", "ngxHttpLocConf", "ngxConfBlock", "ngxConf1More"} >>
       [] d = "include" ->
            << ngxAnyConf \cup {"ngxConfTake1"} >>
       [] d = "listen" ->
            << {"ngxHttpSrvConf", "ngxConf1More"},
               {"ngxMailSrvConf", "ngxConf1More"},
               {"ngxStreamSrvConf", "ngxConf1More"} >>
       [] d = "location" ->
            << {"ngxHttpSrvConf", "ngxHttpLocConf", "ngxConfBlock",
                "ngxConfTake1", "ngxConfTake2"} >>
       [] OTHER (* server *) ->
            << {"ngxHttpMainConf", "ngxConfBlock", "ngxConfNoArgs"},
               {"ngxHttpUpsConf", "ngxConf1More"},
               {"ngxMailMainConf", "ngxConfBlock", "ngxConfNoArgs"},
               {"ngxStreamMainConf", "ngxConfBlock", "ngxConfNoArgs"},
               {"ngxStreamUpsConf", "ngxConf1More"} >>]

(***************************************************************************)
(* enterBlockCtx: the context of the children of a block directive.        *)
(***************************************************************************)
enterBlockCtxAlwaysAppend(stmt, ctx) == Append(ctx, stmt.Directive)

enterBlockCtx(stmt, ctx) ==
  IF Len(ctx) > 0 /\ ctx[1] = "http" /\ stmt.Directive = "location"
  THEN <<"http", "location">>
  ELSE Append(ctx, stmt.Directive)

(***************************************************************************)
(* analyze: Nil, or Some(ParseError).                                      *)
(***************************************************************************)
(* the arity test of one mask *)
ArgsOk(mask, args) ==
  \/ ArgBit(Len(args)) \in mask /\ Len(args) <= 7
  \/ "ngxConfFlag" \in mask /\ Len(args) = 1 /\ validFlag(args[1])
  \/ "ngxConfAny" \in mask /\ Len(args) >= 0
  \/ "ngxConf1More" \in mask /\ Len(args) >= 1
  \/ "ngxConf2More" \in mask /\ Len(args) >= 2

(* the candidate error message one mask leaves in what *)
MaskWhat(mask, stmt, term) ==
  IF "ngxConfBlock" \in mask /\ term # "{"
  THEN "directive \"" \o stmt.Directive \o "\" has no opening \"{\""
  ELSE IF "ngxConfBlock" \notin mask /\ term # ";"
  THEN "directive \"" \o stmt.Directive \o "\" is not terminated by \";\""
  ELSE IF "ngxConfFlag" \in mask /\ Len(stmt.Args) = 1 /\ ~validFlag(stmt.Args[1])
  THEN "invalid value \"" \o stmt.Args[1] \o "\" in \"" \o stmt.Directive
         \o "\" directive, it must be \"on\" or \"off\""
  ELSE "invalid number of arguments in \"" \o stmt.Directive
         \o "\" directive. found " \o ToString(Len(stmt.Args))

MaskAccepts(mask, stmt, term) ==
  /\ ~("ngxConfBlock" \in mask /\ term # "{")
  /\ ~("ngxConfBlock" \notin mask /\ term # ";")
  /\ ArgsOk(mask, stmt.Args)

analyze(fname, stmt, term, ctx, options) ==
  LET knownDirective == stmt.Directive \in DOMAIN directives
      knownContext == key(ctx) \in DOMAIN contexts
      masks == directives[stmt.Directive]
      currCtx == contexts[key(ctx)]
      InCtx(mask) == currCtx \in mask
      ctxMasks == IF options.SkipDirectiveContextCheck THEN masks
                  ELSE SelectSeq(masks, InCtx)
      perr(what) == Some(ParseError(what, Some(fname), Some(stmt.Line)))
  IN  IF options.ErrorOnUnknownDirectives /\ ~knownDirective
      THEN perr("unknown directive \"" \o stmt.Directive \o "\"")
      ELSE IF ~knownContext \/ ~knownDirective THEN Nil
      ELSE IF ~options.SkipDirectiveContextCheck /\ Len(ctxMasks) = 0
      THEN perr("\"" \o stmt.Directive \o "\" directive is not allowed here")
      ELSE IF options.SkipDirectiveArgsCheck THEN Nil
      ELSE IF \E i \in DOMAIN ctxMasks : MaskAccepts(ctxMasks[i], stmt, term)
      THEN Nil
      ELSE perr(IF Len(ctxMasks) = 0 THEN ""
                ELSE MaskWhat(ctxMasks[Len(ctxMasks)], stmt, term))

(***************************************************************************)
(* The tree.  Directive, Config and Payload are the records of the Go      *)
(* structs; Includes, Block and Comment are pointers (Nil or Some).        *)
(***************************************************************************)
Directive(name, line) ==
  [Directive |-> name, Line |-> line, Args |-> <<>>,
   Includes |-> Nil, Block |-> Nil, Comment |-> Nil]

CommentDirective(text, line) ==
  [Directive |-> "#", Line |-> line, Args |-> <<>>,
   Includes |-> Nil, Block |-> Nil, Comment |-> Some(text)]

IsBlock(d) == d.Block # Nil
IsInclude(d) == d.Includes # Nil
IsComment(d) == d.Comment # Nil

NewConfig(path) ==
  [File |-> path, Status |-> "ok", Errors |-> <<>>, Parsed |-> <<>>]

NewPayload == [Status |-> "ok", Errors |-> <<>>, Config |-> <<>>]

(***************************************************************************)
(* prepareIfArgs.  The index e of the last argument is computed before     *)
(* the first argument is dropped, so d.Args[e] is read on the shortened    *)
(* slice: an index out of range there is a run-time panic.                 *)
(***************************************************************************)
prepareIfArgs(d) ==
  LET e == Len(d.Args) - 1
  IN  IF Len(d.Args) > 0 /\ HasPrefix(d.Args[1], "(") /\ HasSuffix(d.Args[e + 1], ")")
      THEN LET a1 == [d.Args EXCEPT ![1] = TrimLeftSpace(TrimPrefix(@, "("))]
               a2 == [a1 EXCEPT ![e + 1] = TrimRightSpace(TrimSuffix(@, ")"))]
               a3 == IF Len(a2[1]) = 0 THEN Tail(a2) ELSE a2
           IN  IF e + 1 > Len(a3)
               THEN [panic |-> TRUE, d |-> [d EXCEPT !.Args = a3]]
               ELSE IF Len(a3[e + 1]) = 0
               THEN [panic |-> FALSE, d |-> [d EXCEPT !.Args = SubSeq(a3, 1, e)]]
               ELSE [panic |-> FALSE, d |-> [d EXCEPT !.Args = a3]]
      ELSE [panic |-> FALSE, d |-> d]

(***************************************************************************)
(* Paths (path/filepath on slash-separated paths without "." and ".."      *)
(* elements, on which Clean changes nothing but a leading "./").           *)
(***************************************************************************)
RECURSIVE LastSlash(_)
LastSlash(p) ==
  IF Len(p) = 0 THEN 0
  ELSE IF SubSeq(p, Len(p), Len(p)) = "/" THEN Len(p)
  ELSE LastSlash(SubSeq(p, 1, Len(p) - 1))

(* filepath.Clean: the leading "./" elements are dropped *)
RECURSIVE Clean(_)
Clean(p) ==
  IF p = "." \/ p = "./" THEN "."
  ELSE IF HasPrefix(p, "./") THEN Clean(SubSeq(p, 3, Len(p)))
  ELSE p

Dir(p) ==
  LET i == LastSlash(p)
  IN  IF i = 0 THEN "." ELSE IF i = 1 THEN "/" ELSE Clean(SubSeq(p, 1, i - 1))

IsAbs(p) == HasPrefix(p, "/")

Join(dir, p) == IF dir = "." THEN p ELSE dir \o "/" \o p

(* hasMagic: the regular expression [*?[] *)
hasMagic(p) == \E i \in 1..Len(p) : SubSeq(p, i, i) \in {"*", "?", "["}

(* path.Match for patterns of literals, * and ? *)
RECURSIVE Match(_, _)
Match(pat, name) ==
  IF Len(pat) = 0 THEN Len(name) = 0
  ELSE LET c == SubSeq(pat, 1, 1)
           rest == SubSeq(pat, 2, Len(pat))
       IN  IF c = "*"
           THEN \/ Match(rest, name)
                \/ /\ Len(name) > 0
                   /\ SubSeq(name, 1, 1) # "/"
                   /\ Match(pat, SubSeq(name, 2, Len(name)))
           ELSE /\ Len(name) > 0
                /\ \/ c = "?" /\ SubSeq(name, 1, 1) # "/"
                   \/ c = SubSeq(name, 1, 1)
                /\ Match(rest, SubSeq(name, 2, Len(name)))

(* filepath.ErrBadPattern: a character class that is never closed *)
BadPattern(pat) ==
  \E i \in 1..Len(pat) :
     /\ SubSeq(pat, i, i) = "["
     /\ \A j \in (i + 1)..Len(pat) : SubSeq(pat, j, j) # "]"

(* sort.Strings: byte order of the printable ASCII characters *)
Ascii ==
  " !\"#$%&'()*+,-./0123456789:;<=>?@ABCDEFGHIJKLMNOPQRSTUVWXYZ[\\]^_abcdefghijklmnopqrstuvwxyz{|}~"

CharRank(c) == CHOOSE i \in 1..Len(Ascii) : SubSeq(Ascii, i, i) = c

RECURSIVE StrLess(_, _)
StrLess(a, b) ==
  IF Len(b) = 0 THEN FALSE
  ELSE IF Len(a) = 0 THEN TRUE
  ELSE LET x == CharRank(SubSeq(a, 1, 1))
           y == CharRank(SubSeq(b, 1, 1))
       IN  IF x # y THEN x < y
           ELSE StrLess(SubSeq(a, 2, Len(a)), SubSeq(b, 2, Len(b)))

RECURSIVE SortStrings(_)
SortStrings(S) ==
  IF S = {} THEN <<>>
  ELSE LET m == CHOOSE x \in S : \A y \in S \ {x} : StrLess(x, y)
       IN  <<m>> \o SortStrings(S \ {m})

(* a Glob whose matches come in descending order *)
GlobDescending(pattern, files) ==
  IF BadPattern(pattern)
  THEN [err |-> Some(IOError("syntax error in pattern")), fnames |-> <<>>]
  ELSE LET up == SortStrings({f \in files : Match(pattern, f)})
       IN  [err |-> Nil, fnames |-> [i \in 1..Len(up) |-> up[Len(up) + 1 - i]]]

(* filepath.Glob over the files of the host, then sort.Strings *)
Glob(pattern, files) ==
  IF BadPattern(pattern)
  THEN [err |-> Some(IOError("syntax error in pattern")), fnames |-> <<>>]
  ELSE [err |-> Nil,
        fnames |-> SortStrings({f \in files : Match(pattern, f)})]

(***************************************************************************)
(* Tokens and the token channel.  tokenize is the environment: it sends    *)
(* any token of the input alphabet, or closes its channel (end of file).   *)
(* balanceBraces stands between tokenize and the parser; one receive of    *)
(* the parser is one iteration of its loop.                                *)
(***************************************************************************)
ngxToken(value, line, quoted) ==
  [Value |-> value, Line |-> line, IsQuoted |-> quoted, Error |-> Nil]

ErrorToken(what, line) ==
  [Value |-> "", Line |-> 0, IsQuoted |-> FALSE,
   Error |-> Some(ParseError(what, Nil, Some(line)))]

ZeroToken == [Value |-> "", Line |-> 0, IsQuoted |-> FALSE, Error |-> Nil]

IsCommentToken(t) == HasPrefix(t.Value, "#") /\ ~t.IsQuoted

(* a counter that takes quoted braces for braces *)
balanceDepthAnyBrace(depth, t) ==
  IF t.Value = "}" THEN depth - 1
  ELSE IF t.Value = "{" THEN depth + 1
  ELSE depth

(* the depth counter of balanceBraces after token t *)
balanceDepth(depth, t) ==
  IF t.Value = "}" /\ ~t.IsQuoted THEN depth - 1
  ELSE IF t.Value = "{" /\ ~t.IsQuoted THEN depth + 1
  ELSE depth

(***************************************************************************)
(* tokenize, character by character.                                       *)
(***************************************************************************)
isSpace(s) == Len(TrimLeftSpace(s)) = 0

(* readChars: the runes of the text, one by one *)
readChars(text) == [i \in 1..Len(text) |-> SubSeq(text, i, i)]

(* escapeChars: a backslash is joined with the character after it *)
RECURSIVE escapeChars(_)
escapeChars(chars) ==
  IF chars = <<>> THEN <<>>
  ELSE LET esc == Head(chars) = "\\"
           char == IF esc
                   THEN "\\" \o (IF Len(chars) > 1 THEN chars[2] ELSE "")
                   ELSE Head(chars)
           rest == IF esc /\ Len(chars) > 1 THEN Tail(Tail(chars)) ELSE Tail(chars)
       IN  IF char = "\r" \/ char = "\\\r" THEN escapeChars(rest)
           ELSE <<char>> \o escapeChars(rest)

RECURSIVE lineCountFrom(_, _)
lineCountFrom(chars, line) ==
  IF chars = <<>> THEN <<>>
  ELSE LET l == IF HasSuffix(Head(chars), "\n") THEN line + 1 ELSE line
       IN  <<[char |-> Head(chars), line |-> l]>> \o lineCountFrom(Tail(chars), l)

(* lineCount: a newline already carries the number of the line it begins *)
lineCount(chars) == lineCountFrom(chars, 1)

(* a receive from the channel of lineCount: the zero charLine once it is closed *)
CharAt(it, i) == IF i <= Len(it) THEN it[i] ELSE [char |-> "", line |-> 0]

(* part_004 84-88: disregard until char is not a whitespace character *)
RECURSIVE SkipSpace(_, _)
SkipSpace(it, i) ==
  IF i <= Len(it) /\ isSpace(it[i].char) THEN SkipSpace(it, i + 1) ELSE i

(* part_004 94-99: a comment runs to the end of its line *)
RECURSIVE ScanComment(_, _, _)
ScanComment(it, i, token) ==
  IF i > Len(it) \/ HasSuffix(it[i].char, "\n") THEN [i |-> i, token |-> token]
  ELSE ScanComment(it, i + 1, token \o it[i].char)

(* part_004 111-116: parameter expansion syntax *)
RECURSIVE ScanExpansion(_, _, _)
ScanExpansion(it, i, token) ==
  IF HasSuffix(token, "}") \/ isSpace(CharAt(it, i).char)
  THEN [i |-> i, token |-> token]
  ELSE ScanExpansion(it, i + 1, token \o it[i].char)

(* part_004 132-141: the inside of a quoted string *)
RECURSIVE ScanQuoted(_, _, _, _)
ScanQuoted(it, i, quote, token) ==
  IF i > Len(it) \/ it[i].char = quote THEN [i |-> i, token |-> token]
  ELSE ScanQuoted(it, i + 1, quote,
                  token \o (IF it[i].char = "\\" \o quote THEN quote ELSE it[i].char))

(* one iteration of the loop of tokenize on it[i], and those after it *)
RECURSIVE tokenizeFrom(_, _, _, _)
tokenizeFrom(it, i, token, tokenLine) ==
  IF i > Len(it)
  THEN IF token # "" THEN <<ngxToken(token, tokenLine, FALSE)>> ELSE <<>>
  ELSE
    LET sp == isSpace(it[i].char)
        out == IF sp /\ Len(token) > 0
               THEN <<ngxToken(token, tokenLine, FALSE)>> ELSE <<>>
        token1 == IF sp THEN "" ELSE token
        i1 == IF sp THEN SkipSpace(it, i) ELSE i
        cl == CharAt(it, i1)
    IN  out \o
        (IF Len(token1) = 0 /\ cl.char = "#"
         THEN LET c == ScanComment(it, i1, "")
              IN  <<ngxToken(c.token, cl.line, FALSE)>>
                    \o tokenizeFrom(it, c.i + 1, "", tokenLine)
         ELSE
           LET line1 == IF Len(token1) = 0 THEN cl.line ELSE tokenLine
               ex == IF Len(token1) > 0 /\ HasSuffix(token1, "$") /\ cl.char = "{"
                     THEN ScanExpansion(it, i1, token1)
                     ELSE [i |-> i1, token |-> token1]
               cl2 == CharAt(it, ex.i)
           IN  IF cl2.char = "\"" \/ cl2.char = "'"
               THEN IF Len(ex.token) > 0
                    THEN tokenizeFrom(it, ex.i + 1, ex.token \o cl2.char, line1)
                    ELSE IF ex.i + 1 > Len(it) THEN <<>>
                    ELSE LET q == ScanQuoted(it, ex.i + 1, cl2.char, "")
                         IN  <<ngxToken(q.token, line1, TRUE)>>
                               \o tokenizeFrom(it, q.i + 1, "", line1)
               ELSE IF cl2.char = "{" \/ cl2.char = "}" \/ cl2.char = ";"
               THEN (IF Len(ex.token) > 0
                     THEN <<ngxToken(ex.token, line1, FALSE)>> ELSE <<>>)
                      \o <<ngxToken(cl2.char, cl2.line, FALSE)>>
                      \o tokenizeFrom(it, ex.i + 1, "", line1)
               ELSE tokenizeFrom(it, ex.i + 1, ex.token \o cl2.char, line1))

tokenize(text) == tokenizeFrom(lineCount(escapeChars(readChars(text))), 1, "", 0)

(***************************************************************************)
(* The builder.                                                            *)
(***************************************************************************)
RECURSIVE escapeFrom(_, _)
escapeFrom(chars, prev) ==
  IF chars = <<>> THEN <<>>
  ELSE LET char == Head(chars)
       IN  IF prev = "\\" \/ prev \o char = "${"
           THEN <<prev \o char>> \o escapeFrom(Tail(chars), prev \o char)
           ELSE (IF prev = "$" THEN <<prev>> ELSE <<>>)
                  \o (IF char # "\\" /\ char # "$" THEN <<char>> ELSE <<>>)
                  \o escapeFrom(Tail(chars), char)

(* escape: the atoms of s, an escaped character or the opening of an expansion
   being one atom *)
escape(s) ==
  LET last == SubSeq(s, Len(s), Len(s))
  IN  escapeFrom(readChars(s), "")
        \o (IF last = "\\" \/ last = "$" THEN <<last>> ELSE <<>>)

RECURSIVE needsQuotesFrom(_, _, _)
needsQuotesFrom(chars, expanding, char) ==
  IF chars = <<>> THEN expanding \/ char = "\\" \/ char = "$"
  ELSE LET c == Head(chars)
       IN  IF isSpace(c) \/ c = "{" \/ c = ";" \/ c = "\"" \/ c = "'" THEN TRUE
           ELSE IF (expanding /\ c = "${") \/ (~expanding /\ c = "}") THEN TRUE
           ELSE needsQuotesFrom(Tail(chars),
                                IF (expanding /\ c = "}") \/ (~expanding /\ c = "${")
                                THEN ~expanding ELSE expanding,
                                c)

needsQuotes(s) ==
  IF s = "" THEN TRUE
  ELSE LET chars == escape(s)
           char == IF chars = <<>> THEN "" ELSE Head(chars)
       IN  IF isSpace(char) \/ char = "{" \/ char = "}" \/ char = ";"
              \/ char = "\"" \/ char = "'" \/ char = "${"
           THEN TRUE
           ELSE needsQuotesFrom(Tail(chars), FALSE, char)

(* the double quotes inside a quoted argument are escaped *)
RECURSIVE EscapeQuotes(_)
EscapeQuotes(s) ==
  IF s = "" THEN ""
  ELSE (IF SubSeq(s, 1, 1) = "\"" THEN "\\\"" ELSE SubSeq(s, 1, 1))
         \o EscapeQuotes(SubSeq(s, 2, Len(s)))

enquote(arg) ==
  IF ~needsQuotes(arg) THEN arg ELSE "\"" \o EscapeQuotes(arg) \o "\""

RECURSIVE JoinArgs(_)
JoinArgs(args) ==
  IF args = <<>> THEN ""
  ELSE IF Len(args) = 1 THEN enquote(args[1])
  ELSE enquote(args[1]) \o " " \o JoinArgs(Tail(args))

RECURSIVE Margin(_)
Margin(depth) == IF depth = 0 THEN "" ELSE "    " \o Margin(depth - 1)

RECURSIVE buildBlock(_, _, _, _)
buildBlock(output, block, depth, lastLine) ==
  IF block = <<>> THEN output
  ELSE
    LET stmt == Head(block)
        directive == enquote(stmt.Directive)
        head == IF directive = "if" THEN "if (" \o JoinArgs(stmt.Args) \o ")"
                ELSE IF stmt.Args # <<>>
                THEN directive \o " " \o JoinArgs(stmt.Args)
                ELSE directive
        built == IF directive = "#" THEN "#" \o Deref(stmt.Comment)
                 ELSE IF stmt.Block = Nil THEN head \o ";"
                 ELSE buildBlock(head \o " {", Deref(stmt.Block), depth + 1, stmt.Line)
                        \o "\n" \o Margin(depth) \o "}"
    IN  IF directive = "#" /\ stmt.Line = lastLine
        THEN buildBlock(output \o " #" \o Deref(stmt.Comment), Tail(block), depth, lastLine)
        ELSE buildBlock(output \o (IF output # "" THEN "\n" ELSE "")
                               \o Margin(depth) \o built,
                        Tail(block), depth, stmt.Line)

(* Build with the default BuildOptions: the text of one config *)
Build(c) == buildBlock("", c.Parsed, 0, 0)

VARIABLES
  options,   \* ParseOptions
  fsys,      \* [root, host, virt, text]: the root file name, the files of the
             \* host, the files the FileOpener of the options opens, and the
             \* text of the root file once it has been written (Nil: any tokens)
  input,     \* [alpha, maxTok, maxLine]: what tokenize may send
  includes,  \* parser.includes: the queue of fileCtx
  included,  \* parser.included: path -> index
  payload,   \* the Payload under construction
  config,    \* the Config of the file being parsed
  stack,     \* the frames of the nested calls of parser.parse
  pc,        \* "idle", "top" (range tokens), "args" (<-tokens in the argument loop)
  outcome,   \* "running", "payload", "error", "panic", "hang"
  retErr,    \* the error Parse returned
  lx,        \* the channel of balanceBraces and its goroutine's locals
  ev,        \* history: what the last step did
  raised,    \* history: the ParseErrors met so far
  opened,    \* history: path -> the context its file was parsed under
  handles,   \* the files opened and not closed
  pipe,      \* the goroutines of lex on a text, when they are followed one by one
  sent,      \* history: the tokens tokenize sent to a drained lexer
  drained,   \* history: the tokens received from a drained lexer
  builds,    \* history: the payloads built to text and parsed again
  call       \* [op, in, out, done]: one call of a function on its own

vars == <<options, fsys, input, includes, included, payload, config, stack, pc,
          outcome, retErr, lx, ev, raised, opened, handles, pipe, sent, drained, builds, call>>

(* the largest number of receives on a closed channel followed in the argument loop *)
MaxSpin == 1

(* the largest number of arguments and comments of one statement in the input *)
MaxArgs == 2

NoEvent == [kind |-> "none", err |-> Nil, stmt |-> Directive("", 0)]
NoCall == [op |-> "none", in |-> Nil, out |-> Nil, done |-> FALSE]
NoPipe == <<>>
Event(kind, err, stmt) == [kind |-> kind, err |-> err, stmt |-> stmt]

(* the lines the next token of tokenize can carry: a comment ends its line *)
NextLines ==
  IF lx.line = 0 THEN {1}
  ELSE {l \in {lx.line, lx.line + 1} : l <= input.maxLine /\ (lx.cmt => l > lx.line)}

(* what tokenize sends next: Some(token), or Nil when it closes its channel *)
RawNext ==
  IF lx.fixed # Nil
  THEN IF Deref(lx.fixed) = <<>> THEN {Nil} ELSE {Some(Head(Deref(lx.fixed)))}
  ELSE {Nil} \cup
       IF lx.n < input.maxTok
       THEN {Some(ngxToken(a.Value, l, a.IsQuoted)) : a \in input.alpha, l \in NextLines}
       ELSE {}

(* one iteration of balanceBraces on raw: what the parser receives *)
balanceBraces(raw) ==
  IF raw = Nil
  THEN IF lx.depth > 0
       THEN [ok |-> TRUE,
             t |-> ErrorToken("unexpected end of file, expecting \"}\"", lx.line),
             lx |-> [lx EXCEPT !.closed = TRUE]]
       ELSE [ok |-> FALSE, t |-> ZeroToken, lx |-> [lx EXCEPT !.closed = TRUE]]
  ELSE LET t == Deref(raw)
           depth == balanceDepth(lx.depth, t)
           next == [lx EXCEPT !.depth = depth, !.line = t.Line, !.n = @ + 1,
                              !.cmt = IsCommentToken(t),
                              !.fixed = IF @ = Nil THEN Nil ELSE Some(Tail(Deref(@)))]
       IN  IF depth < 0
           THEN [ok |-> TRUE, t |-> ErrorToken("unexpected \"}\"", t.Line),
                 lx |-> [next EXCEPT !.closed = TRUE]]
           ELSE [ok |-> TRUE, t |-> t, lx |-> next]

(* a receive from the channel: on a closed channel, the zero token *)
Recv ==
  IF lx.closed THEN {[ok |-> FALSE, t |-> ZeroToken, lx |-> lx]}
  ELSE {balanceBraces(raw) : raw \in RawNext}

NewChannel(fixed) ==
  [depth |-> 0, line |-> 0, closed |-> FALSE, n |-> lx.n, cmt |-> FALSE,
   spin |-> 0, fixed |-> fixed]

(***************************************************************************)
(* The parser.  M is the record of the variables a step may change.        *)
(***************************************************************************)
Machine ==
  [includes |-> includes, included |-> included, payload |-> payload,
   config |-> config, stack |-> stack, pc |-> pc, outcome |-> outcome,
   retErr |-> retErr, ev |-> NoEvent, raised |-> raised]

Commit(M) ==
  /\ includes' = M.includes
  /\ included' = M.included
  /\ payload' = M.payload
  /\ config' = M.config
  /\ stack' = M.stack
  /\ pc' = M.pc
  /\ outcome' = M.outcome
  /\ retErr' = M.retErr
  /\ ev' = M.ev
  /\ raised' = M.raised

Frame(ctx, consume, kont) ==
  [parsed |-> <<>>, ctx |-> ctx, consume |-> consume, kont |-> kont,
   stmt |-> Directive("", 0), comments |-> <<>>]

Top(M) == M.stack[Len(M.stack)]
SetTop(M, f) == [M EXCEPT !.stack[Len(M.stack)] = f]
Push(M, f) == [M EXCEPT !.stack = Append(@, f), !.pc = "top"]
Panic(M) == [M EXCEPT !.outcome = "panic"]

(* the next iteration of the loop of parse: the statement's locals are dead *)
Continue(M) ==
  [SetTop(M, [Top(M) EXCEPT !.stmt = Directive("", 0), !.comments = <<>>])
     EXCEPT !.pc = "top"]

(* a handleError that leaves the status of the payload alone *)
handleErrorNoPayloadStatus(M, err) ==
  IF ErrorPanics(err) THEN Panic(M)
  ELSE [M EXCEPT
          !.config.Status = "failed",
          !.config.Errors = Append(@, [Line |-> err.line, Error |-> ErrorString(err)]),
          !.payload.Errors = Append(@, [File |-> M.config.File, Line |-> err.line,
                                        Error |-> ErrorString(err)])]

(* a handleError that records the error on the config only *)
handleErrorConfigOnly(M, err) ==
  IF ErrorPanics(err) THEN Panic(M)
  ELSE [M EXCEPT
          !.config.Status = "failed",
          !.config.Errors = Append(@, [Line |-> err.line, Error |-> ErrorString(err)]),
          !.payload.Status = "failed"]

(* Parse's handleError closure: parse.go 86-103 *)
handleError(M, err) ==
  IF ErrorPanics(err) THEN Panic(M)
  ELSE [M EXCEPT
          !.config.Status = "failed",
          !.config.Errors = Append(@, [Line |-> err.line, Error |-> ErrorString(err)]),
          !.payload.Status = "failed",
          !.payload.Errors = Append(@, [File |-> M.config.File, Line |-> err.line,
                                        Error |-> ErrorString(err)])]

(* parse.go 333-344: the statement, then the comments found among its arguments *)
AppendStmt(M, stmt, comments) ==
  LET f == Top(M)
      cs == [i \in 1..Len(comments) |-> CommentDirective(comments[i], stmt.Line)]
  IN  Continue(SetTop(M, [f EXCEPT !.parsed = (@ \o <<stmt>>) \o cs]))

(* parse.go 136-145: parse has returned to Parse *)
FileDone(M, parsed, err) ==
  IF err # Nil
  THEN IF options.StopParsingOnError
       THEN [M EXCEPT !.outcome = "error", !.retErr = err, !.pc = "idle"]
       ELSE LET M1 == handleError(M, Deref(err))
            IN  IF M1.outcome = "panic" THEN M1
                ELSE [M1 EXCEPT !.payload.Config = Append(@, M1.config), !.pc = "idle"]
  ELSE LET c == [M.config EXCEPT !.Parsed = parsed]
       IN  [M EXCEPT !.config = c, !.payload.Config = Append(@, c), !.pc = "idle"]

(* a call of parse returns (parsed, err): what its caller does with it *)
RECURSIVE Unwind(_, _, _)
Unwind(M, parsed, err) ==
  LET n == Len(M.stack)
      callee == M.stack[n]
      M1 == [M EXCEPT !.stack = SubSeq(@, 1, n - 1), !.pc = "top"]
  IN  CASE callee.kont = "file" -> FileDone(M1, parsed, err)
        [] callee.kont \in {"consume", "ignored", "recover"} -> Continue(M1)
        [] callee.kont = "lua" -> AppendStmt(M1, Top(M1).stmt, Top(M1).comments)
        [] OTHER (* block *) ->
             IF err # Nil THEN Unwind(M1, <<>>, err)
             ELSE AppendStmt(M1, [Top(M1).stmt EXCEPT !.Block = Some(parsed)],
                             Top(M1).comments)

(* an enqueue that takes the position in the queue for the index *)
RECURSIVE enqueueQueueIndex(_, _, _, _)
enqueueQueueIndex(M, stmt, fnames, ctx) ==
  IF fnames = <<>> THEN [M |-> M, stmt |-> stmt]
  ELSE LET fname == Head(fnames)
           M1 == IF fname \notin DOMAIN M.included
                 THEN [M EXCEPT
                         !.included = @ @@ (fname :> Len(M.includes)),
                         !.includes = Append(@, [path |-> fname, ctx |-> ctx])]
                 ELSE M
           s1 == [stmt EXCEPT !.Includes = Some(Append(Deref(@), M1.included[fname]))]
       IN  enqueueQueueIndex(M1, s1, Tail(fnames), ctx)

(* parse.go 292-300: enqueue the files not seen yet, record every index *)
RECURSIVE enqueue(_, _, _, _)
enqueue(M, stmt, fnames, ctx) ==
  IF fnames = <<>> THEN [M |-> M, stmt |-> stmt]
  ELSE LET fname == Head(fnames)
           M1 == IF fname \notin DOMAIN M.included
                 THEN [M EXCEPT
                         !.included = @ @@ (fname :> Cardinality(DOMAIN @)),
                         !.includes = Append(@, [path |-> fname, ctx |-> ctx])]
                 ELSE M
           s1 == [stmt EXCEPT !.Includes = Some(Append(Deref(@), M1.included[fname]))]
       IN  enqueue(M1, s1, Tail(fnames), ctx)

(* a missing include that loses its includes list *)
includeMissingAbsent(M, stmt, perr) ==
  LET M0 == [M EXCEPT !.raised = @ + 1,
                      !.ev = Event("includeMissing", Some(perr), stmt)]
  IN  IF ~options.StopParsingOnError
      THEN [M |-> handleError(M0, perr), stmt |-> [stmt EXCEPT !.Includes = Nil],
            ret |-> Nil, panic |-> FALSE]
      ELSE [M |-> M0, stmt |-> stmt, ret |-> Some(perr), panic |-> FALSE]

(* parse.go 275-285: the explicit include cannot be opened *)
includeMissing(M, stmt, perr) ==
  LET M0 == [M EXCEPT !.raised = @ + 1,
                      !.ev = Event("includeMissing", Some(perr), stmt)]
  IN  IF ~options.StopParsingOnError
      THEN [M |-> handleError(M0, perr), stmt |-> stmt, ret |-> Nil, panic |-> FALSE]
      ELSE [M |-> M0, stmt |-> stmt, ret |-> Some(perr), panic |-> FALSE]

(* parse.go 255-301: an include statement *)
resolveInclude(M, stmt0, ctx) ==
  IF Len(stmt0.Args) = 0
  THEN [M |-> M, stmt |-> stmt0, ret |-> Nil, panic |-> TRUE]
  ELSE LET pattern == IF ~IsAbs(stmt0.Args[1])
                      THEN Join(Dir(fsys.root), stmt0.Args[1])
                      ELSE stmt0.Args[1]
           stmt == [stmt0 EXCEPT !.Includes = Some(<<>>)]
           perr == ParseError("open " \o pattern \o ": no such file or directory",
                              Some(M.config.File), Some(stmt.Line))
       IN  IF hasMagic(pattern)
           THEN LET g == Glob(pattern, fsys.host)
                IN  IF g.err # Nil
                    THEN [M |-> M, stmt |-> stmt, ret |-> g.err, panic |-> FALSE]
                    ELSE enqueue(M, stmt, g.fnames, ctx)
                           @@ [ret |-> Nil, panic |-> FALSE]
           ELSE IF pattern \notin fsys.host
           THEN includeMissing(M, stmt, perr)
           ELSE enqueue(M, stmt, <<pattern>>, ctx) @@ [ret |-> Nil, panic |-> FALSE]

(* parse.go 255-344: the statement passed analyze *)
AfterAnalyze(M, stmt, t) ==
  LET f == Top(M)
      inc == IF ~options.SingleFile /\ stmt.Directive = "include"
             THEN resolveInclude(M, stmt, f.ctx)
             ELSE [M |-> M, stmt |-> stmt, ret |-> Nil, panic |-> FALSE]
  IN  IF inc.panic THEN Panic(M)
      ELSE IF inc.ret # Nil THEN Unwind(inc.M, <<>>, inc.ret)
      ELSE IF t.Value = "{" /\ ~t.IsQuoted
      THEN LET inner == enterBlockCtx(inc.stmt, f.ctx)
               M2 == SetTop(inc.M, [Top(inc.M) EXCEPT !.stmt = inc.stmt])
           IN  IF HasSuffix(inc.stmt.Directive, "_by_lua_block")
               THEN Push(M2, Frame(inner, TRUE, "lua"))
               ELSE Push(M2, Frame(inner, FALSE, "block"))
      ELSE AppendStmt(inc.M, inc.stmt, f.comments)

(* an ignored directive whose block is parsed like any other block *)
consumeIgnoredNameOnly(M, t) ==
  LET M0 == [Continue(M) EXCEPT !.ev = Event("ignored", Nil, Top(M).stmt)]
  IN  IF t.Value = "{" /\ ~t.IsQuoted
      THEN Push(M0, Frame(Top(M).ctx, FALSE, "ignored"))
      ELSE M0

(* parse.go 222-229: the directive is ignored, and its block consumed *)
consumeIgnored(M, t) ==
  LET M0 == [Continue(M) EXCEPT !.ev = Event("ignored", Nil, Top(M).stmt)]
  IN  IF t.Value = "{" /\ ~t.IsQuoted
      THEN Push(M0, Frame(<<>>, TRUE, "ignored"))
      ELSE M0

(* parse.go 222-253: the argument loop met its terminator t *)
AfterArgs(M, t) ==
  LET f == Top(M)
  IN  IF contains(options.IgnoreDirectives, f.stmt.Directive)
      THEN consumeIgnored(M, t)
      ELSE LET prep == IF f.stmt.Directive = "if" THEN prepareIfArgs(f.stmt)
                       ELSE [panic |-> FALSE, d |-> f.stmt]
               stmt == prep.d
               err == analyze(M.config.File, stmt, t.Value, f.ctx, options)
           IN  IF prep.panic THEN Panic(M)
               ELSE IF err # Nil
               THEN LET M0 == [M EXCEPT !.raised = @ + 1,
                                        !.ev = Event("analyzeError", err, stmt)]
                    IN  IF ~options.StopParsingOnError
                        THEN LET M1 == handleError(M0, Deref(err))
                             IN  IF HasSuffix(Deref(err).what, " is not terminated by \";\"")
                                 THEN IF t.Value # "}" /\ ~t.IsQuoted
                                      THEN Push(Continue(M1), Frame(<<>>, TRUE, "recover"))
                                      ELSE Unwind(M1, f.parsed, Nil)
                                 ELSE Continue(M1)
                        ELSE Unwind(M0, <<>>, err)
               ELSE AfterAnalyze(M, stmt, t)

(* parse.go 160-202: the token the range loop received *)
AtTop(M, r) ==
  LET f == Top(M)
      t == r.t
  IN  IF ~r.ok THEN Unwind(M, f.parsed, Nil)
      ELSE IF t.Error # Nil
      THEN Unwind([M EXCEPT !.raised = @ + 1,
                            !.ev = Event("lexError", t.Error, Directive("", 0))],
                  <<>>, t.Error)
      ELSE IF t.Value = "}" /\ ~t.IsQuoted THEN Unwind(M, f.parsed, Nil)
      ELSE IF f.consume
      THEN IF t.Value = "{" /\ ~t.IsQuoted
           THEN Push(M, Frame(<<>>, TRUE, "consume"))
           ELSE M
      ELSE IF HasPrefix(t.Value, "#") /\ ~t.IsQuoted
      THEN IF options.ParseComments
           THEN SetTop(M, [f EXCEPT !.parsed =
                             Append(@, CommentDirective(SubSeq(t.Value, 2, Len(t.Value)),
                                                        t.Line))])
           ELSE M
      ELSE [SetTop(M, [f EXCEPT !.stmt = Directive(t.Value, t.Line)])
              EXCEPT !.pc = "args"]

(* parse.go 204-217: a token received in the argument loop *)
InArgs(M, r) ==
  LET f == Top(M)
      t == r.t
  IN  IF t.IsQuoted \/ (t.Value # "{" /\ t.Value # ";" /\ t.Value # "}")
      THEN IF HasPrefix(t.Value, "#") /\ ~t.IsQuoted
           THEN SetTop(M, [f EXCEPT !.comments =
                             Append(@, SubSeq(t.Value, 2, Len(t.Value)))])
           ELSE LET M0 == IF t.Error # Nil
                          THEN [M EXCEPT !.raised = @ + 1,
                                         !.ev = Event("lexError", t.Error, f.stmt)]
                          ELSE M
                IN  SetTop(M0, [f EXCEPT !.stmt.Args = Append(@, t.Value)])
      ELSE AfterArgs(M, t)

(***************************************************************************)
(* combineConfigs.  performIncludes calls itself for every index of an     *)
(* includes list and keeps no record of the configs it is expanding: when  *)
(* an index leads back to a config under expansion the expansion never     *)
(* ends.  path, the indices under expansion, is how the model tells.       *)
(***************************************************************************)
Sent(out) == [hang |-> FALSE, err |-> Nil, out |-> out]

Then(a, b) ==
  IF a.hang \/ a.err # Nil THEN [a EXCEPT !.out = <<>>]
  ELSE IF b.hang \/ b.err # Nil THEN [b EXCEPT !.out = <<>>]
  ELSE Sent(a.out \o b.out)

RECURSIVE performIncludes(_, _, _, _), expandIncludes(_, _, _, _, _)
(* an expansion that takes the last index of the includes list first *)
RECURSIVE expandIncludesLastFirst(_, _, _, _, _)
expandIncludesLastFirst(old, fromfile, dir, idxs, path) ==
  IF idxs = <<>> THEN Sent(<<>>)
  ELSE LET idx == idxs[Len(idxs)]
       IN  IF idx >= Len(old.Config)
           THEN [hang |-> FALSE, out |-> <<>>,
                 err |-> Some(ParseError("include config with index: " \o ToString(idx),
                                         Some(fromfile), Some(dir.Line)))]
           ELSE IF idx \in path THEN [hang |-> TRUE, err |-> Nil, out |-> <<>>]
           ELSE Then(performIncludes(old, old.Config[idx + 1].File,
                                     old.Config[idx + 1].Parsed, path \cup {idx}),
                     expandIncludesLastFirst(old, fromfile, dir,
                                             SubSeq(idxs, 1, Len(idxs) - 1), path))

(* util.go 108-124: the configs an include directive names, one after the other *)
expandIncludes(old, fromfile, dir, idxs, path) ==
  IF idxs = <<>> THEN Sent(<<>>)
  ELSE LET idx == Head(idxs)
       IN  IF idx >= Len(old.Config)
           THEN [hang |-> FALSE, out |-> <<>>,
                 err |-> Some(ParseError("include config with index: " \o ToString(idx),
                                         Some(fromfile), Some(dir.Line)))]
           ELSE IF idx \in path THEN [hang |-> TRUE, err |-> Nil, out |-> <<>>]
           ELSE Then(performIncludes(old, old.Config[idx + 1].File,
                                     old.Config[idx + 1].Parsed, path \cup {idx}),
                     expandIncludes(old, fromfile, dir, Tail(idxs), path))

performIncludes(old, fromfile, block, path) ==
  IF block = <<>> THEN Sent(<<>>)
  ELSE LET dir0 == Head(block)
           sub == IF IsBlock(dir0)
                  THEN performIncludes(old, fromfile, Deref(dir0.Block), path)
                  ELSE Sent(<<>>)
           dir == IF IsBlock(dir0) THEN [dir0 EXCEPT !.Block = Some(sub.out)] ELSE dir0
           here == IF sub.hang \/ sub.err # Nil THEN [sub EXCEPT !.out = <<>>]
                   ELSE IF ~IsInclude(dir) THEN Sent(<<dir>>)
                   ELSE expandIncludes(old, fromfile, dir, Deref(dir.Includes), path)
       IN  Then(here, performIncludes(old, fromfile, Tail(block), path))

(* the errors of the configs, the last config first *)
RECURSIVE ConcatErrorsLastFirst(_)
ConcatErrorsLastFirst(configs) ==
  IF configs = <<>> THEN <<>>
  ELSE ConcatErrorsLastFirst(Tail(configs)) \o Head(configs).Errors

(* util.go 66-71: the errors of every config, in config order *)
RECURSIVE ConcatErrors(_)
ConcatErrors(configs) ==
  IF configs = <<>> THEN <<>>
  ELSE Head(configs).Errors \o ConcatErrors(Tail(configs))

(* util.go 44-86.  A payload without configs is returned as it is.  A nil
   slice and an empty slice are both the empty sequence. *)
combineConfigs(old) ==
  IF Len(old.Config) < 1 THEN [hang |-> FALSE, err |-> Nil, payload |-> old]
  ELSE
    LET status == IF old.Status = "" THEN "ok" ELSE old.Status
        errors == IF old.Errors = Nil THEN <<>> ELSE old.Errors
        r == performIncludes(old, old.Config[1].File, old.Config[1].Parsed, {0})
        combined ==
          [File |-> old.Config[1].File,
           Status |-> IF \E i \in DOMAIN old.Config : old.Config[i].Status = "failed"
                      THEN "failed" ELSE "ok",
           Errors |-> ConcatErrors(old.Config),
           Parsed |-> r.out]
    IN  [hang |-> r.hang, err |-> r.err,
         payload |-> [Status |-> status, Errors |-> errors, Config |-> <<combined>>]]

(***************************************************************************)
(* The actions: Parse's loop over the include queue, and the two places    *)
(* where parse receives a token.                                           *)
(***************************************************************************)
(* parse.go 119-134: take the next file from the queue and open it; the file
   a path names is the one of its cleaned form *)
OpenNext ==
  /\ outcome = "running" /\ pc = "idle" /\ includes # <<>>
  /\ LET incl == Head(includes)
         openable == IF options.Open THEN fsys.virt ELSE fsys.host
     IN  IF Clean(incl.path) \notin openable
         THEN /\ outcome' = "error"
              /\ retErr' = Some(IOError("open " \o incl.path
                                          \o ": no such file or directory"))
              /\ includes' = Tail(includes)
              /\ UNCHANGED <<config, stack, pc, lx, opened, handles>>
         ELSE /\ includes' = Tail(includes)
              /\ opened' = (incl.path :> incl.ctx) @@ opened
              /\ handles' = handles \cup {incl.path}
              /\ config' = NewConfig(incl.path)
              /\ stack' = <<Frame(incl.ctx, FALSE, "file")>>
              /\ pc' = "top"
              /\ lx' = NewChannel(IF fsys.text = Nil THEN Nil
                                  ELSE Some(tokenize(Deref(fsys.text))))
              /\ UNCHANGED <<outcome, retErr>>
  /\ ev' = NoEvent
  /\ UNCHANGED <<options, fsys, input, included, payload, raised, sent, drained,
                 builds, call, pipe>>

(* parse.go 148-152: the queue is empty, Parse returns the payload, combined
   when CombineConfigs is set (never, when the combining does not end) *)
Return ==
  /\ outcome = "running" /\ pc = "idle" /\ includes = <<>>
  /\ IF options.CombineConfigs
     THEN LET r == combineConfigs(payload)
          IN  IF r.hang THEN outcome' = "hang" /\ UNCHANGED <<payload, retErr>>
              ELSE IF r.err # Nil
              THEN outcome' = "error" /\ retErr' = r.err /\ UNCHANGED payload
              ELSE outcome' = "payload" /\ payload' = r.payload /\ UNCHANGED retErr
     ELSE outcome' = "payload" /\ UNCHANGED <<payload, retErr>>
  /\ ev' = NoEvent
  /\ UNCHANGED <<options, fsys, input, includes, included, config, stack,
                 pc, lx, raised, opened, handles, pipe, sent, drained, builds, call>>

(* parse.go 160: for t := range tokens *)
RecvTop ==
  /\ outcome = "running" /\ pc = "top"
  /\ \E r \in Recv :
       /\ Commit(AtTop(Machine, r))
       /\ lx' = r.lx
  /\ UNCHANGED <<options, fsys, input, opened, handles, pipe, sent, drained, builds, call>>

(* parse.go 205, 216: t = <-tokens *)
RecvArg ==
  /\ outcome = "running" /\ pc = "args"
  /\ \E r \in Recv :
       /\ r.ok \/ lx.spin < MaxSpin
       /\ (r.ok /\ r.t.Error = Nil /\ (r.t.IsQuoted \/ r.t.Value \notin {"{", ";", "}"}))
            => Len(Top(Machine).stmt.Args) + Len(Top(Machine).comments) < MaxArgs
       /\ Commit(InArgs(Machine, r))
       /\ lx' = [r.lx EXCEPT !.spin = IF r.ok THEN @ ELSE @ + 1]
  /\ UNCHANGED <<options, fsys, input, opened, handles, pipe, sent, drained, builds, call>>

Next == OpenNext \/ Return \/ RecvTop \/ RecvArg

(***************************************************************************)
(* The inputs: options, file systems and token alphabets, by scenario.     *)
(***************************************************************************)
DefaultOptions ==
  [StopParsingOnError |-> FALSE, IgnoreDirectives |-> <<>>,
   CombineConfigs |-> FALSE, SingleFile |-> FALSE, ParseComments |-> FALSE,
   ErrorOnUnknownDirectives |-> FALSE, SkipDirectiveContextCheck |-> FALSE,
   SkipDirectiveArgsCheck |-> FALSE, Open |-> FALSE]

Bare(v) == [Value |-> v, IsQuoted |-> FALSE]
Quoted(v) == [Value |-> v, IsQuoted |-> TRUE]
Punctuation == {Bare("{"), Bare("}"), Bare(";")}

RootFile == "conf/nginx.conf"
FileA == "conf/a.conf"
FileB == "conf/b.conf"
HostOnly(files) == [root |-> RootFile, host |-> files, virt |-> files, text |-> Nil]

MaxTokCtx == 7
MaxTokInc == 6
MaxTokErr == 4
MaxTokCmt == 4
MaxLine == 2

(* nesting of blocks and the context of their children *)
ScnCtx ==
  [alpha |-> {Bare("http"), Bare("foo"), Bare("location"), Bare("{"), Bare("}")},
   maxTok |-> MaxTokCtx, maxLine |-> 1,
   cfgs |-> {[DefaultOptions EXCEPT !.SkipDirectiveArgsCheck = TRUE]}
              \X {HostOnly({RootFile})}]

(* includes: literal, globbed, missing *)
ScnInc ==
  [alpha |-> {Bare("include"), Bare("a.conf"), Bare("*.conf"), Bare(";")},
   maxTok |-> MaxTokInc, maxLine |-> MaxLine,
   cfgs |-> ({[DefaultOptions EXCEPT !.StopParsingOnError = s] : s \in BOOLEAN}
               \X {HostOnly({RootFile}), HostOnly({RootFile, FileA}),
                   HostOnly({RootFile, FileA, FileB})})
            \cup {<<[DefaultOptions EXCEPT !.SingleFile = TRUE],
                     HostOnly({RootFile, FileA})>>,
                   <<[DefaultOptions EXCEPT !.CombineConfigs = TRUE],
                     HostOnly({RootFile, FileA})>>}]

(* errors of the analyser and of the lexer *)
ScnErr ==
  [alpha |-> {Bare("http"), Bare("foo"), Bare("listen")} \cup Punctuation,
   maxTok |-> MaxTokErr, maxLine |-> MaxLine,
   cfgs |-> {[DefaultOptions EXCEPT !.StopParsingOnError = s,
                                    !.ErrorOnUnknownDirectives = u] :
               s \in BOOLEAN, u \in BOOLEAN}
              \X {HostOnly({RootFile})}]

(* comments *)
ScnCmt ==
  [alpha |-> {Bare("foo"), Bare("a"), Bare("#c"), Quoted("#")} \cup Punctuation,
   maxTok |-> MaxTokCmt, maxLine |-> MaxLine,
   cfgs |-> {[DefaultOptions EXCEPT !.ParseComments = c] : c \in BOOLEAN}
              \X {HostOnly({RootFile})}]

(* an include followed by a block *)
ScnBlk ==
  [alpha |-> {Bare("include"), Bare("a.conf"), Bare("foo"), Bare("{"), Bare("}"),
              Bare(";")},
   maxTok |-> MaxTokErr, maxLine |-> 1,
   cfgs |-> {[DefaultOptions EXCEPT !.SkipDirectiveArgsCheck = TRUE]}
              \X {HostOnly({RootFile, FileA})}]

Scenarios == {ScnCtx, ScnInc, ScnErr, ScnCmt, ScnBlk}

(* the state when Parse enters its loop: parse.go 80-117 *)
InitParse(scn) ==
  /\ \E c \in scn.cfgs : options = c[1] /\ fsys = c[2]
  /\ input = [alpha |-> scn.alpha, maxTok |-> scn.maxTok, maxLine |-> scn.maxLine]
  /\ includes = <<[path |-> fsys.root, ctx |-> <<>>]>>
  /\ included = (fsys.root :> 0)
  /\ payload = NewPayload
  /\ config = NewConfig("")
  /\ stack = <<>>
  /\ pc = "idle"
  /\ outcome = "running"
  /\ retErr = Nil
  /\ lx = [depth |-> 0, line |-> 0, closed |-> TRUE, n |-> 0, cmt |-> FALSE,
           spin |-> 0, fixed |-> Nil]
  /\ ev = NoEvent
  /\ raised = 0
  /\ opened = <<>>
  /\ handles = {}
  /\ pipe = NoPipe
  /\ sent = <<>>
  /\ drained = <<>>
  /\ builds = <<>>
  /\ call = NoCall

Init == \E scn \in Scenarios : InitParse(scn)

Spec == Init /\ [][Next]_vars

(***************************************************************************)
(* Parse, Build, Parse again: build_test.go TestCompareParsedAndBuilt.      *)
(***************************************************************************)
MaxBuilds == 2
MaxTokRT == 5
MaxLineRT == 3

ScnRT ==
  [alpha |-> {Bare("foo"), Bare("#c"), Quoted("a b"), Bare("{"), Bare("}"), Bare(";")},
   maxTok |-> MaxTokRT, maxLine |-> MaxLineRT,
   cfgs |-> {[DefaultOptions EXCEPT !.ParseComments = c] : c \in BOOLEAN}
              \X {HostOnly({RootFile})}]

InitRT == InitParse(ScnRT)

(* build the first config of the payload Parse returned, write the text, and
   call Parse on it with the same options *)
Rebuild ==
  /\ outcome = "payload" /\ Len(builds) < MaxBuilds
  /\ builds' = Append(builds, payload)
  /\ fsys' = [fsys EXCEPT !.text = Some(Build(payload.Config[1]))]
  /\ includes' = <<[path |-> fsys.root, ctx |-> <<>>]>>
  /\ included' = (fsys.root :> 0)
  /\ payload' = NewPayload
  /\ config' = NewConfig("")
  /\ stack' = <<>>
  /\ pc' = "idle"
  /\ outcome' = "running"
  /\ retErr' = Nil
  /\ ev' = NoEvent
  /\ raised' = 0
  /\ opened' = <<>>
  /\ handles' = handles
  /\ pipe' = pipe
  /\ UNCHANGED <<options, input, lx, sent, drained, call>>

NextRT == Next \/ Rebuild

SpecRT == InitRT /\ [][NextRT]_vars

(* build_test.go 413-501 *)
RECURSIVE equalBlocks(_, _)
equalDirectives(d1, d2) ==
  /\ d1.Directive = d2.Directive
  /\ Len(d1.Args) = Len(d2.Args)
  /\ (d1.Includes = Nil) = (d2.Includes = Nil)
  /\ (d1.Block = Nil) = (d2.Block = Nil)
  /\ d1.Block # Nil => equalBlocks(Deref(d1.Block), Deref(d2.Block))
  /\ (d1.Comment = Nil) = (d2.Comment = Nil)
  /\ d1.Comment # Nil => Deref(d1.Comment) = Deref(d2.Comment)
  /\ \A i \in DOMAIN d1.Args : enquote(d1.Args[i]) = enquote(d2.Args[i])
  /\ d1.Includes # Nil =>
       \A i \in DOMAIN Deref(d1.Includes) : Deref(d1.Includes)[i] = Deref(d2.Includes)[i]

equalBlocks(b1, b2) ==
  /\ Len(b1) = Len(b2)
  /\ \A i \in DOMAIN b1 : equalDirectives(b1[i], b2[i])

equalConfigs(c1, c2) ==
  /\ c1.Status = c2.Status
  /\ c1.Errors = c2.Errors
  /\ equalBlocks(c1.Parsed, c2.Parsed)

equalPayloads(p1, p2) ==
  /\ p1.Status = p2.Status
  /\ p1.Errors = p2.Errors
  /\ Len(p1.Config) = Len(p2.Config)
  /\ \A i \in DOMAIN p1.Config : equalConfigs(p1.Config[i], p2.Config[i])

(* C5, as claimed: when a config that parses without error is built to text
   and parsed again, and once more, each payload equals the one it was built
   from: status, errors, directive names, arguments after enquote, presence of
   blocks, comments. *)
C5_RoundTrip ==
  (outcome = "payload" /\ builds # <<>> /\ builds[1].Status = "ok") =>
    equalPayloads(builds[Len(builds)], payload)

(***************************************************************************)
(* The lexer alone: a consumer that ranges over the channel of lex until   *)
(* it is closed.                                                           *)
(***************************************************************************)
MaxTokLex == 5

LexAlphabet ==
  {Bare("{"), Bare("}"), Quoted("{"), Quoted("}"), Bare("a"), Bare(";")}

InitLex ==
  /\ options = DefaultOptions
  /\ fsys = HostOnly({RootFile})
  /\ input = [alpha |-> LexAlphabet, maxTok |-> MaxTokLex, maxLine |-> MaxLine]
  /\ includes = <<>>
  /\ included = <<>>
  /\ payload = NewPayload
  /\ config = NewConfig("")
  /\ stack = <<>>
  /\ pc = "lex"
  /\ outcome = "running"
  /\ retErr = Nil
  /\ lx = [depth |-> 0, line |-> 0, closed |-> FALSE, n |-> 0, cmt |-> FALSE,
           spin |-> 0, fixed |-> Nil]
  /\ ev = NoEvent
  /\ raised = 0
  /\ opened = <<>>
  /\ handles = {}
  /\ pipe = NoPipe
  /\ sent = <<>>
  /\ drained = <<>>
  /\ builds = <<>>
  /\ call = NoCall

(* for token := range lex(reader): one iteration, or the end of the loop *)
Drain ==
  /\ pc = "lex"
  /\ IF lx.closed
     THEN pc' = "drained" /\ UNCHANGED <<lx, sent, drained>>
     ELSE \E raw \in RawNext :
            LET r == balanceBraces(raw)
            IN  /\ lx' = r.lx
                /\ sent' = IF raw = Nil THEN sent ELSE Append(sent, Deref(raw))
                /\ drained' = IF r.ok THEN Append(drained, r.t) ELSE drained
                /\ pc' = IF r.ok THEN pc ELSE "drained"
  /\ UNCHANGED <<options, fsys, input, includes, included, payload, config, stack,
                 outcome, retErr, ev, raised, opened, handles, pipe, builds, call>>

NextLex == Drain

SpecLex == InitLex /\ [][NextLex]_vars

(* closing braces minus opening braces among the unquoted tokens of ts *)
RECURSIVE Excess(_)
Excess(ts) ==
  IF ts = <<>> THEN 0
  ELSE Excess(SubSeq(ts, 1, Len(ts) - 1))
         + (IF ts[Len(ts)] = [ts[Len(ts)] EXCEPT !.Value = "}", !.IsQuoted = FALSE]
            THEN 1
            ELSE IF ts[Len(ts)] = [ts[Len(ts)] EXCEPT !.Value = "{", !.IsQuoted = FALSE]
            THEN -1 ELSE 0)

(* the prefixes of the tokens sent that close more braces than they open *)
Overclosed == {k \in 1..Len(sent) : Excess(SubSeq(sent, 1, k)) > 0}

(* C3: when the stream of the lexer has been drained: if some prefix of the
   tokens sent has more unquoted closing than opening braces, the stream is
   the tokens before the first such closing brace, then the error token
   unexpected "}" with its line, and nothing after it was read; else if the
   input ended with braces left open, the stream is the input, then the error
   token unexpected end of file with the last line; else the stream is the
   input, without an error token.  At all times an error token is the last
   token received. *)
C3_BraceBalance ==
  /\ \A i \in DOMAIN drained : drained[i].Error # Nil => i = Len(drained)
  /\ pc = "drained" =>
       IF Overclosed # {}
       THEN LET k == CHOOSE k \in Overclosed : \A j \in Overclosed : k <= j
            IN  /\ Len(sent) = k
                /\ drained = Append(SubSeq(sent, 1, k - 1),
                                    ErrorToken("unexpected \"}\"", sent[k].Line))
       ELSE IF Excess(sent) < 0
       THEN drained = Append(sent,
                             ErrorToken("unexpected end of file, expecting \"}\"",
                                        sent[Len(sent)].Line))
       ELSE drained = sent

(* a quoted closing brace passes, the unquoted one after a balanced block is
   rejected *)
C3_Witness ==
  /\ pc = "drained"
  /\ Len(sent) = 4
  /\ sent[1].Value = "}" /\ sent[1].IsQuoted
  /\ sent[2].Value = "{" /\ ~sent[2].IsQuoted
  /\ sent[3].Value = "}" /\ ~sent[3].IsQuoted
  /\ sent[4].Value = "}" /\ ~sent[4].IsQuoted
  /\ drained[4].Error # Nil

(***************************************************************************)
(* Reading the trees of a payload.                                         *)
(***************************************************************************)
RECURSIVE Nodes(_)
Nodes(block) ==
  UNION {{block[i]} \cup (IF IsBlock(block[i]) THEN Nodes(Deref(block[i].Block)) ELSE {})
           : i \in DOMAIN block}

PayloadNodes == UNION {Nodes(payload.Config[i].Parsed) : i \in DOMAIN payload.Config}

(* the files the argument of an include names, from the file system alone *)
ResolvedFiles(arg) ==
  LET pattern == IF IsAbs(arg) THEN arg ELSE Join(Dir(fsys.root), arg)
  IN  IF hasMagic(pattern) THEN Glob(pattern, fsys.host).fnames
      ELSE IF pattern \in fsys.host THEN <<pattern>> ELSE <<>>

(* C1: in a payload Parse returns (no CombineConfigs), no two configs have the
   same file, and the includes list of every include directive holds, in order,
   valid indices of the configs of the files its argument resolves to. *)
C1_IncludeDedup ==
  (outcome = "payload" /\ ~options.CombineConfigs) =>
    /\ \A i, j \in DOMAIN payload.Config :
         payload.Config[i].File = payload.Config[j].File => i = j
    /\ \A d \in PayloadNodes :
         IsInclude(d) =>
           LET inc == Deref(d.Includes)
               files == ResolvedFiles(d.Args[1])
           IN  /\ Len(inc) = Len(files)
               /\ \A k \in DOMAIN inc :
                    /\ inc[k] \in 0..(Len(payload.Config) - 1)
                    /\ payload.Config[inc[k] + 1].File = files[k]

(* a payload whose root includes the same file twice, after another file *)
C1_Witness ==
  /\ outcome = "payload" /\ ~options.CombineConfigs
  /\ Len(payload.Config) >= 3
  /\ \E i, j \in DOMAIN payload.Config[1].Parsed :
       /\ i < j
       /\ IsInclude(payload.Config[1].Parsed[i])
       /\ IsInclude(payload.Config[1].Parsed[j])
       /\ Range(Deref(payload.Config[1].Parsed[i].Includes))
            \cap Range(Deref(payload.Config[1].Parsed[j].Includes)) # {}

(* C2: in a payload Parse returns, the status is "failed" iff some config is
   "failed", and then the payload has errors. *)
C2_FailureComposes ==
  outcome = "payload" =>
    /\ payload.Status = "failed"
         <=> \E i \in DOMAIN payload.Config : payload.Config[i].Status = "failed"
    /\ payload.Status = "failed" => Len(payload.Errors) > 0

C2_Witness ==
  /\ outcome = "payload"
  /\ payload.Status = "failed"
  /\ \E i \in DOMAIN payload.Config : payload.Config[i].Status = "ok"
  /\ \E i \in DOMAIN payload.Config : payload.Config[i].Status = "failed"

(* the frames of the children of a location block *)
LocationFrames ==
  {i \in 2..Len(stack) :
     stack[i].kont = "block" /\ stack[i - 1].stmt.Directive = "location"}

(* C4, as claimed: the children of every location block are analysed under
   the context http > location, whatever encloses the location. *)
C4_AnyLocation ==
  \A i \in LocationFrames : stack[i].ctx = <<"http", "location">>

(* C4, amended: the children of a location block whose enclosing context
   begins with http are analysed under http > location, however deep the
   nesting; elsewhere location is appended to the context like any block. *)
C4_LocationUnderHttp ==
  \A i \in LocationFrames :
     LET outer == stack[i - 1].ctx
     IN  IF Len(outer) > 0 /\ outer[1] = "http"
         THEN stack[i].ctx = <<"http", "location">>
         ELSE stack[i].ctx = Append(outer, "location")

(* a location two blocks below http *)
C4_Witness ==
  \E i \in LocationFrames :
     /\ Len(stack[i - 1].ctx) >= 2
     /\ stack[i - 1].ctx[1] = "http"
     /\ stack[i].ctx = <<"http", "location">>

(* C6, as claimed: without StopParsingOnError no ParseError ends Parse, and
   each is recorded; with it the first ParseError is what Parse returns. *)
C6_ParseErrorIsData ==
  IF ~options.StopParsingOnError
  THEN raised > 0 => /\ outcome \in {"running", "payload"}
                     /\ Len(payload.Errors) >= raised
  ELSE raised > 0 => /\ outcome = "error"
                     /\ raised = 1
                     /\ retErr = ev.err

(* C7, as claimed: without StopParsingOnError a brace error of the lexer is
   recorded on the config of its file and on the payload, rendered as
   message in file:line, both are marked failed, and Parse goes on. *)
C7_LexErrorRecorded ==
  (ev.kind = "lexError" /\ ~options.StopParsingOnError) =>
    LET e == Deref(ev.err)
        text == e.what \o " in " \o config.File \o ":" \o ToString(Deref(e.line))
    IN  /\ outcome = "running"
        /\ config.Status = "failed"
        /\ payload.Status = "failed"
        /\ \E i \in DOMAIN config.Errors : config.Errors[i].Error = text
        /\ \E i \in DOMAIN payload.Errors :
             payload.Errors[i] = [File |-> config.File, Line |-> e.line, Error |-> text]

(* a directive the analyser accepts in context ctx, under some terminator *)
Accepted(d, ctx, file) ==
  \E term \in (IF IsBlock(d) THEN {"{"} ELSE {";", "}", "{"}) :
     analyze(file, d, term, ctx, options) = Nil

RECURSIVE TreeAccepted(_, _, _)
TreeAccepted(block, ctx, file) ==
  \A i \in DOMAIN block :
     \/ IsComment(block[i])
     \/ /\ Accepted(block[i], ctx, file)
        /\ IsBlock(block[i]) =>
             TreeAccepted(Deref(block[i].Block), enterBlockCtx(block[i], ctx), file)

C8_Tree ==
  (outcome = "payload" /\ ~options.CombineConfigs) =>
    \A i \in DOMAIN payload.Config :
       TreeAccepted(payload.Config[i].Parsed, opened[payload.Config[i].File],
                    payload.Config[i].File)

(* the directives of the trees under construction *)
FrameNodes == UNION {Nodes(stack[i].parsed) : i \in DOMAIN stack}

C8_Step ==
  (ev'.kind = "analyzeError" /\ ~options.StopParsingOnError) =>
    LET e == Deref(ev'.err)
        text == ErrorString(e)
    IN  /\ ev'.stmt \notin (FrameNodes' \ FrameNodes)
        /\ config'.Errors = Append(config.Errors, [Line |-> e.line, Error |-> text])
        /\ payload'.Errors =
             Append(payload.Errors, [File |-> config.File, Line |-> e.line, Error |-> text])
        /\ config'.Status = "failed"
        /\ payload'.Status = "failed"

(* C8: without StopParsingOnError, a step in which the analyser rejects a
   directive adds no such directive to the trees under construction, appends
   its error once to the errors of the current config and once, with the
   file, to those of the payload, and marks both failed; and no tree of a
   payload returned without combining holds a directive the analyser rejects
   under every terminator. *)
C8_AnalyzeErrorRecorded == []C8_Tree /\ [][C8_Step]_vars

C8_Witness ==
  /\ ev.kind = "analyzeError"
  /\ options.ErrorOnUnknownDirectives /\ ~options.StopParsingOnError
  /\ HasPrefix(Deref(ev.err).what, "unknown directive")
  /\ Len(payload.Errors) = 2

C9_Step ==
  (ev'.kind = "includeMissing" /\ ~options.StopParsingOnError) =>
    LET e == Deref(ev'.err)
        d == ev'.stmt
        n == Len(stack)
    IN  /\ config'.Errors =
             Append(config.Errors, [Line |-> Some(d.Line), Error |-> ErrorString(e)])
        /\ includes' = includes
        /\ included' = included
        /\ outcome' = "running" /\ pc' = "top"
        /\ \/ /\ Len(stack') = n
              /\ Len(stack'[n].parsed) > Len(stack[n].parsed)
              /\ LET kept == stack'[n].parsed[Len(stack[n].parsed) + 1]
                 IN  /\ kept.Directive = "include" /\ kept.Args = d.Args
                     /\ kept.Line = d.Line
                     /\ kept.Includes = Some(<<>>)
           \/ /\ Len(stack') = n + 1
              /\ stack'[n].stmt.Directive = "include"
              /\ stack'[n].stmt.Includes = Some(<<>>)

(* C9: without StopParsingOnError, an explicit include that cannot be opened
   stays in the tree with an includes list that is present and empty, records
   one error on the including config with the line of the include, enqueues
   nothing, and parsing goes on with the next statement. *)
C9_MissingInclude == [][C9_Step]_vars

C9_Witness ==
  /\ ev.kind = "includeMissing" /\ ~options.StopParsingOnError
  /\ ev.stmt.Line = 2
  /\ Len(config.Errors) = 1
  /\ pc = "top"

(* C10, as claimed: with ParseComments false no directive named # is in any
   tree of the payload. *)
C10_NoCommentNodes ==
  (outcome = "payload" /\ ~options.ParseComments) =>
    \A d \in PayloadNodes : d.Directive # "#"

(* the files in the order of their discovery: those of the configs appended,
   the file being parsed, the files waiting in the queue *)
DiscoveryOrder ==
  [i \in DOMAIN payload.Config |-> payload.Config[i].File]
    \o (IF pc \in {"top", "args"} THEN <<config.File>> ELSE <<>>)
    \o [i \in DOMAIN includes |-> includes[i].path]

C11_Order ==
  (outcome = "running" \/ (outcome = "payload" /\ ~options.CombineConfigs)) =>
    /\ DiscoveryOrder[1] = fsys.root
    /\ DOMAIN included = Range(DiscoveryOrder)
    /\ \A i \in DOMAIN DiscoveryOrder : included[DiscoveryOrder[i]] = i - 1

C11_Step ==
  IF Len(includes') < Len(includes)
  THEN /\ includes' = Tail(includes)
       /\ payload'.Config = payload.Config
       /\ outcome' = "running" => config'.File = Head(includes).path
  ELSE /\ SubSeq(includes', 1, Len(includes)) = includes
       /\ LET new == SubSeq(includes', Len(includes) + 1, Len(includes'))
          IN  \A i \in DOMAIN new :
                 /\ new[i].path \notin DOMAIN included
                 /\ \A j \in DOMAIN new : i < j => StrLess(new[i].path, new[j].path)
       /\ (outcome' = "running" /\ payload'.Config # payload.Config) =>
            /\ Len(payload'.Config) = Len(payload.Config) + 1
            /\ SubSeq(payload'.Config, 1, Len(payload.Config)) = payload.Config
            /\ payload'.Config[Len(payload'.Config)].File = config.File

(* C11: the files are discovered first-in first-out: the file opened is the
   head of the queue and the rest of the queue is kept; every other step keeps
   the queue and adds at its end only paths never enqueued before, those of
   one include in ascending lexicographic order; the config of a file is
   appended to the payload when its parse ends; so that at all times the
   configs appended, the file being parsed and the queue are, in this order,
   the paths in the order of their first enqueueing, the root first. *)
C11_DiscoveryOrder == []C11_Order /\ [][C11_Step]_vars

(* the root includes a.conf, whose glob include adds b.conf to the queue *)
C11_Witness ==
  /\ outcome = "payload" /\ ~options.CombineConfigs
  /\ [i \in DOMAIN payload.Config |-> payload.Config[i].File] = <<RootFile, FileA, FileB>>
  /\ Len(payload.Config[1].Parsed) = 1
  /\ payload.Config[1].Parsed[1].Includes = Some(<<1>>)
  /\ Len(payload.Config[2].Parsed) = 1
  /\ payload.Config[2].Parsed[1].Includes = Some(<<1, 2, 0>>)

(***************************************************************************)
(* Payload.Combined on payloads a caller has put together: up to           *)
(* MaxConfigs configs, with missing or given status and errors, and trees  *)
(* whose includes lists name configs, themselves, or no config at all.     *)
(***************************************************************************)
MaxConfigs == 3

SrcFile(i) == "c" \o ToString(i) \o ".conf"

Leaf(name, line) == Directive(name, line)
IncludeOf(idxs, line) ==
  [Directive("include", line) EXCEPT !.Args = <<"x">>, !.Includes = Some(idxs)]
BlockOf(name, line, children) == [Directive(name, line) EXCEPT !.Block = Some(children)]

(* the trees of the config of index i *)
SrcTrees(i) ==
  LET n == ToString(i)
  IN  { <<Leaf("a" \o n, 1)>>,
        <<IncludeOf(<<2, 1>>, 1), Leaf("b" \o n, 2)>>,
        <<BlockOf("http", 1, <<IncludeOf(<<1>>, 2), Leaf("c" \o n, 3)>>)>>,
        <<Leaf("d" \o n, 1), IncludeOf(<<2>>, 2)>> }

SrcConfig(i) ==
  {[File |-> SrcFile(i), Status |-> se[1], Errors |-> se[2], Parsed |-> t] :
     se \in {<<"", <<>>>>, <<"ok", <<>>>>,
             <<"failed", <<[Line |-> Some(i + 1), Error |-> "e" \o ToString(i)]>>>>},
     t \in SrcTrees(i)}

RECURSIVE SrcConfigs(_)
SrcConfigs(n) ==
  IF n = 0 THEN {<<>>}
  ELSE {Append(cs, c) : cs \in SrcConfigs(n - 1), c \in SrcConfig(n - 1)}

SrcPayloads ==
  {[Status |-> se[1], Errors |-> se[2], Config |-> cs] :
     se \in {<<"", <<>>>>, <<"ok", <<>>>>,
             <<"failed", <<[File |-> SrcFile(0), Line |-> Nil, Error |-> "e"]>>>>},
     cs \in UNION {SrcConfigs(n) : n \in 0..MaxConfigs}}

(* no Parse is running *)
Parked ==
  /\ options = DefaultOptions
  /\ fsys = HostOnly({RootFile})
  /\ input = [alpha |-> {}, maxTok |-> 0, maxLine |-> 0]
  /\ includes = <<>>
  /\ included = <<>>
  /\ payload = NewPayload
  /\ config = NewConfig("")
  /\ stack = <<>>
  /\ pc = "call"
  /\ outcome = "running"
  /\ retErr = Nil
  /\ lx = [depth |-> 0, line |-> 0, closed |-> TRUE, n |-> 0, cmt |-> FALSE,
           spin |-> 0, fixed |-> Nil]
  /\ ev = NoEvent
  /\ raised = 0
  /\ opened = <<>>
  /\ handles = {}
  /\ pipe = NoPipe
  /\ sent = <<>>
  /\ drained = <<>>
  /\ builds = <<>>

Call(op, in) == [op |-> op, in |-> in, out |-> Nil, done |-> FALSE]

MaxTokComb == 7

(* Parse with CombineConfigs: a glob that names a.conf and b.conf *)
ScnCombine ==
  [alpha |-> {Bare("include"), Bare("?.conf"), Bare("x"), Bare("y"), Bare(";")},
   maxTok |-> MaxTokComb, maxLine |-> 1,
   cfgs |-> {[DefaultOptions EXCEPT !.CombineConfigs = TRUE, !.SingleFile = s] :
               s \in BOOLEAN}
              \X {HostOnly({RootFile, FileA, FileB})}]

InitCombine ==
  \/ Parked /\ \E p \in SrcPayloads : call = Call("Combined", p)
  \/ InitParse(ScnCombine)

(* combined, err := payload.Combined() *)
Combined ==
  /\ call.op = "Combined" /\ ~call.done
  /\ call' = [call EXCEPT !.out = combineConfigs(call.in), !.done = TRUE]
  /\ UNCHANGED <<options, fsys, input, includes, included, payload, config, stack,
                 pc, outcome, retErr, lx, ev, raised, opened, handles, pipe, sent, drained, builds>>

NextCombine == Combined \/ Next

SpecCombine == InitCombine /\ [][NextCombine]_vars

(* Combined has returned a payload *)
CombinedOk == call.op = "Combined" /\ call.done /\ ~call.out.hang /\ call.out.err = Nil

(* the number of errors of the configs before the i-th *)
RECURSIVE ErrorsBefore(_, _)
ErrorsBefore(configs, i) ==
  IF i <= 1 THEN 0
  ELSE ErrorsBefore(configs, i - 1) + Len(configs[i - 1].Errors)

(* the one config of the combined payload, against the source configs *)
OneConfig(src, out) ==
  /\ Len(out.Config) = 1
  /\ out.Config[1].File = src.Config[1].File
  /\ out.Config[1].Status \in {"ok", "failed"}
  /\ out.Config[1].Status = "failed"
       <=> \E i \in DOMAIN src.Config : src.Config[i].Status = "failed"
  /\ Len(out.Config[1].Errors) = ErrorsBefore(src.Config, Len(src.Config) + 1)
  /\ \A i \in DOMAIN src.Config : \A k \in DOMAIN src.Config[i].Errors :
       out.Config[1].Errors[ErrorsBefore(src.Config, i) + k] = src.Config[i].Errors[k]

MissingToDefaults(src, out) ==
  (src.Status = "" /\ src.Errors = Nil) => (out.Status = "ok" /\ out.Errors = <<>>)

(* C12, as claimed: every combined payload has exactly one config, of the
   file of the root, failed iff some source config was, with the errors of the
   source configs in config order; and a source with missing status and errors
   combines to status ok and no errors. *)
C12_CombinedAnySource ==
  CombinedOk =>
    /\ OneConfig(call.in, call.out.payload)
    /\ MissingToDefaults(call.in, call.out.payload)

(* C12, amended: the same of every source payload with at least one config; a
   source payload without configs is returned as it is, with no config and
   with its status and errors as they were, missing if they were missing. *)
C12_Combined ==
  CombinedOk =>
    IF Len(call.in.Config) >= 1
    THEN /\ OneConfig(call.in, call.out.payload)
         /\ MissingToDefaults(call.in, call.out.payload)
         /\ call.in.Status # "" => call.out.payload.Status = call.in.Status
         /\ call.out.payload.Errors = call.in.Errors
    ELSE call.out.payload = call.in

(* three configs, the second and third failed, no status on the payload *)
C12_Witness ==
  /\ CombinedOk
  /\ Len(call.in.Config) = 3
  /\ call.in.Status = ""
  /\ call.in.Config[1].Status = ""
  /\ call.in.Config[2].Status = "failed"
  /\ call.in.Config[3].Status = "failed"
  /\ Len(call.out.payload.Config[1].Errors) = 2
  /\ call.out.payload.Status = "ok"

(* the tree that block becomes when every directive with an includes list is
   replaced by the trees of the configs of its list, in the order of the list *)
RECURSIVE Spliced(_, _), SplicedAll(_, _, _)
Spliced(old, block) ==
  IF block = <<>> THEN <<>>
  ELSE LET d == Head(block)
       IN  (IF d.Includes # Nil THEN SplicedAll(old, Deref(d.Includes), 1)
            ELSE IF d.Block # Nil
            THEN <<[d EXCEPT !.Block = Some(Spliced(old, Deref(d.Block)))]>>
            ELSE <<d>>)
             \o Spliced(old, Tail(block))

SplicedAll(old, idxs, k) ==
  IF k > Len(idxs) THEN <<>>
  ELSE Spliced(old, old.Config[idxs[k] + 1].Parsed) \o SplicedAll(old, idxs, k + 1)

C13_Called ==
  (CombinedOk /\ Len(call.in.Config) >= 1) =>
    LET tree == call.out.payload.Config[1].Parsed
    IN  /\ tree = Spliced(call.in, call.in.Config[1].Parsed)
        /\ \A d \in Nodes(tree) : d.Includes = Nil

C13_Returned ==
  (outcome = "running" /\ outcome' = "payload" /\ options.CombineConfigs) =>
    /\ payload'.Config[1].Parsed = Spliced(payload, payload.Config[1].Parsed)
    /\ \A d \in Nodes(payload'.Config[1].Parsed) : d.Includes = Nil
    /\ \A d \in PayloadNodes :
         d.Includes # Nil =>
           [k \in DOMAIN Deref(d.Includes) |-> payload.Config[Deref(d.Includes)[k] + 1].File]
             = ResolvedFiles(d.Args[1])

(* C13, as claimed: no directive named include is left in a combined tree. *)
C13_NoIncludeNamed ==
  (outcome = "payload" /\ options.CombineConfigs) =>
    \A d \in Nodes(payload.Config[1].Parsed) : d.Directive # "include"

(* C13, amended: the combined tree is the tree of the root in which every
   directive without an includes list is copied in source order, its child
   block expanded the same way, and every directive with an includes list is
   replaced by the trees, expanded the same way, of the configs of its list in
   the order of the list, which for a globbed include parsed by Parse is the
   ascending order of the file names; no directive of the combined tree has an
   includes list.  A directive named include that has no includes list
   (SingleFile) is copied like any other. *)
C13_Spliced == []C13_Called /\ [][C13_Returned]_vars

(* Parse has combined a root whose glob names two files with a directive each *)
C13_Witness ==
  /\ outcome = "payload" /\ options.CombineConfigs /\ ~options.SingleFile
  /\ DOMAIN opened = {RootFile, FileA, FileB}
  /\ Len(payload.Config[1].Parsed) = 2
  /\ payload.Config[1].Parsed[1].Directive = "x"
  /\ payload.Config[1].Parsed[2].Directive = "y"

(***************************************************************************)
(* analyze on its own: analyze_test.go TestAnalyze.                        *)
(***************************************************************************)
MaxAnalyzeArgs == 8

AnalyzeNames == DOMAIN directives \cup {"foo"}

(* n arguments, and the single arguments of the flag test *)
AnalyzeArgs ==
  {[i \in 1..n |-> "x"] : n \in 0..MaxAnalyzeArgs}
    \cup {<<"on">>, <<"Off">>, <<"OFF">>, <<"okay">>, <<"">>}

(* the contexts of the table, and contexts of third-party blocks *)
AnalyzeCtxs ==
  { <<>>, <<"events">>, <<"mail">>, <<"mail", "server">>, <<"stream">>,
    <<"stream", "server">>, <<"stream", "upstream">>, <<"http">>,
    <<"http", "server">>, <<"http", "location">>, <<"http", "upstream">>,
    <<"http", "server", "if">>, <<"http", "location", "if">>,
    <<"http", "location", "limit_except">>,
    <<"some_third_party_context">>, <<"http", "foo">>, <<"events", "http">>,
    <<"http>server">> }

AnalyzeOptions ==
  {[DefaultOptions EXCEPT !.ErrorOnUnknownDirectives = u,
                          !.SkipDirectiveContextCheck = c,
                          !.SkipDirectiveArgsCheck = a] :
     u \in BOOLEAN, c \in BOOLEAN, a \in BOOLEAN}

InitAnalyze ==
  /\ Parked
  /\ \E name \in AnalyzeNames, args \in AnalyzeArgs, term \in {";", "{", "}"},
        ctx \in AnalyzeCtxs, opts \in AnalyzeOptions :
       call = Call("analyze",
                   [fname |-> "/path/to/nginx.conf",
                    stmt |-> [Directive(name, 5) EXCEPT !.Args = args],
                    term |-> term, ctx |-> ctx, options |-> opts])

(* err := analyze(fname, stmt, term, ctx, options) *)
Analyze ==
  /\ call.op = "analyze" /\ ~call.done
  /\ call' = [call EXCEPT
                !.out = analyze(call.in.fname, call.in.stmt, call.in.term,
                                call.in.ctx, call.in.options),
                !.done = TRUE]
  /\ UNCHANGED <<options, fsys, input, includes, included, payload, config, stack,
                 pc, outcome, retErr, lx, ev, raised, opened, handles, pipe, sent, drained, builds>>

NextAnalyze == Analyze

SpecAnalyze == InitAnalyze /\ [][NextAnalyze]_vars

Analyzed == call.op = "analyze" /\ call.done

(* the contexts the table lists, as lists of block names, with their flags *)
KnownContexts ==
  { <<<<>>, "ngxMainConf">>, <<<<"events">>, "ngxEventConf">>,
    <<<<"mail">>, "ngxMailMainConf">>, <<<<"mail", "server">>, "ngxMailSrvConf">>,
    <<<<"stream">>, "ngxStreamMainConf">>,
    <<<<"stream", "server">>, "ngxStreamSrvConf">>,
    <<<<"stream", "upstream">>, "ngxStreamUpsConf">>,
    <<<<"http">>, "ngxHttpMainConf">>, <<<<"http", "server">>, "ngxHttpSrvConf">>,
    <<<<"http", "location">>, "ngxHttpLocConf">>,
    <<<<"http", "upstream">>, "ngxHttpUpsConf">>,
    <<<<"http", "server", "if">>, "ngxHttpSifConf">>,
    <<<<"http", "location", "if">>, "ngxHttpLifConf">>,
    <<<<"http", "location", "limit_except">>, "ngxHttpLmtConf">> }

IsKnownContext(ctx) == \E kc \in KnownContexts : kc[1] = ctx
FlagOf(ctx) == (CHOOSE kc \in KnownContexts : kc[1] = ctx)[2]

(* the variants of a known directive that are allowed in a known context *)
VariantsIn(name, ctx) ==
  {directives[name][i] : i \in {j \in DOMAIN directives[name] :
                                  FlagOf(ctx) \in directives[name][j]}}

NotAllowedHere(name) == "\"" \o name \o "\" directive is not allowed here"

(* C14, as claimed: with default options analyze returns nil whenever its
   directive is not in the catalogue or its context is not one of the
   contexts of the table; for a directive of the catalogue in a context of the
   table it returns the error directive is not allowed here exactly when no
   variant of the directive has the flag of the context. *)
C14_UnknownIsPermitted ==
  (Analyzed /\ call.in.options = DefaultOptions) =>
    LET name == call.in.stmt.Directive
        ctx == call.in.ctx
    IN  IF name \notin DOMAIN directives \/ ~IsKnownContext(ctx)
        THEN call.out = Nil
        ELSE (call.out # Nil /\ Deref(call.out).what = NotAllowedHere(name))
               <=> VariantsIn(name, ctx) = {}

(* the arity flags of 0 to 7 arguments *)
FixedArity ==
  <<"ngxConfNoArgs", "ngxConfTake1", "ngxConfTake2", "ngxConfTake3",
    "ngxConfTake4", "ngxConfTake5", "ngxConfTake6", "ngxConfTake7">>

TerminatorFits(mask, term) ==
  IF "ngxConfBlock" \in mask THEN term = "{" ELSE term = ";"

ArityHolds(mask, args) ==
  LET n == Len(args)
  IN  \/ n <= 7 /\ FixedArity[n + 1] \in mask
      \/ "ngxConfFlag" \in mask /\ n = 1 /\ ToLower(args[1]) \in {"on", "off"}
      \/ "ngxConfAny" \in mask
      \/ "ngxConf1More" \in mask /\ n >= 1
      \/ "ngxConf2More" \in mask /\ n >= 2

(* analyze has checked the arguments of a directive of the catalogue in a
   context of the table in which it is allowed *)
ArgsChecked ==
  /\ Analyzed
  /\ ~call.in.options.SkipDirectiveContextCheck
  /\ ~call.in.options.SkipDirectiveArgsCheck
  /\ call.in.stmt.Directive \in DOMAIN directives
  /\ IsKnownContext(call.in.ctx)
  /\ VariantsIn(call.in.stmt.Directive, call.in.ctx) # {}

AcceptedIffVariant ==
  call.out = Nil
    <=> \E mask \in VariantsIn(call.in.stmt.Directive, call.in.ctx) :
           TerminatorFits(mask, call.in.term) /\ ArityHolds(mask, call.in.stmt.Args)

(* a flag directive with one argument that is neither on nor off *)
BadFlag ==
  /\ \E mask \in VariantsIn(call.in.stmt.Directive, call.in.ctx) : "ngxConfFlag" \in mask
  /\ Len(call.in.stmt.Args) = 1
  /\ ToLower(call.in.stmt.Args[1]) \notin {"on", "off"}

MustBeOnOrOff ==
  /\ call.out # Nil
  /\ HasSuffix(Deref(call.out).what, "it must be \"on\" or \"off\"")

(* C15, as claimed: analyze returns nil iff some variant allowed in the
   context fits the terminator and the arity; and a flag directive with one
   argument that is not on or off is rejected with the error it must be on or
   off, whatever its terminator. *)
C15_BadFlagAnyTerminator ==
  ArgsChecked => /\ AcceptedIffVariant
                 /\ BadFlag => MustBeOnOrOff

(* C15, amended: analyze returns nil iff some variant allowed in the context
   fits the terminator and the arity; a flag directive with one argument that
   is not on or off is rejected, with the error it must be on or off when
   its terminator is the semicolon, and with the error is not terminated by
   semicolon otherwise. *)
C15_ArgsCheck ==
  ArgsChecked =>
    /\ AcceptedIffVariant
    /\ BadFlag =>
         IF call.in.term = ";" THEN MustBeOnOrOff
         ELSE /\ call.out # Nil
              /\ Deref(call.out).what
                   = "directive \"" \o call.in.stmt.Directive
                       \o "\" is not terminated by \";\""

(* accept_mutex Off; is accepted in events *)
C15_Witness ==
  /\ ArgsChecked
  /\ call.in.stmt.Directive = "accept_mutex"
  /\ call.in.stmt.Args = <<"Off">>
  /\ call.in.term = ";"
  /\ call.in.ctx = <<"events">>
  /\ call.out = Nil

(* C16, as claimed: in every tree of a payload Parse returns, the comment of
   a directive is set if and only if its name is #, whether the token of the
   name was quoted or not. *)
C16_CommentIffHash ==
  outcome = "payload" =>
    \A d \in PayloadNodes : (d.Comment # Nil) <=> (d.Directive = "#")

(* C17, as claimed: in every tree of a payload Parse returns, no directive
   has both a block and an includes list, and an includes list is only on
   directives named include and only without SingleFile. *)
C17_BlockOrIncludes ==
  outcome = "payload" =>
    \A d \in PayloadNodes :
       /\ ~(d.Block # Nil /\ d.Includes # Nil)
       /\ d.Includes # Nil => (d.Directive = "include" /\ ~options.SingleFile)

(***************************************************************************)
(* Parse with IgnoreDirectives.                                            *)
(***************************************************************************)
MaxTokIgn == 6

ScnIgn ==
  [alpha |-> {Bare("include"), Bare("foo"), Bare("{"), Bare("}"), Bare(";")},
   maxTok |-> MaxTokIgn, maxLine |-> 1,
   cfgs |-> {[DefaultOptions EXCEPT !.IgnoreDirectives = <<"include">>,
                                    !.ErrorOnUnknownDirectives = u] : u \in BOOLEAN}
              \X {HostOnly({RootFile})}]

InitIgnore == InitParse(ScnIgn)

SpecIgnore == InitIgnore /\ [][Next]_vars

(* the frames of the blocks of ignored directives *)
IgnoredFrames == {i \in DOMAIN stack : stack[i].kont = "ignored"}

LoopTop(f) == [f EXCEPT !.stmt = Directive("", 0), !.comments = <<>>]

(* nothing but the position in the token stream and the frames above the
   first n - 1 changes *)
Untouched(n) ==
  /\ payload' = payload
  /\ config' = config
  /\ includes' = includes
  /\ included' = included
  /\ outcome' = "running"
  /\ SubSeq(stack', 1, n - 1) = SubSeq(stack, 1, n - 1)

C18_Tree ==
  outcome \in {"running", "payload"} =>
    /\ \A d \in PayloadNodes \cup FrameNodes :
         ~contains(options.IgnoreDirectives, d.Directive)
    /\ \A i \in DOMAIN stack :
         (~contains(options.IgnoreDirectives, stack[i].stmt.Directive)
            \/ (i = Len(stack) /\ pc = "args"))
    /\ pc = "top" => Top(Machine) = LoopTop(Top(Machine))

C18_Step ==
  /\ ev'.kind = "ignored" =>
       LET n == Len(stack)
       IN  /\ Untouched(n)
           /\ raised' = raised
           /\ pc' = "top"
           /\ Len(stack') \in {n, n + 1}
           /\ stack'[n] = LoopTop(stack[n])
           /\ Len(stack') = n + 1 => stack'[n + 1].kont = "ignored"
  /\ IgnoredFrames # {} =>
       LET k == CHOOSE i \in IgnoredFrames : \A j \in IgnoredFrames : i <= j
       IN  /\ Untouched(k)
           /\ \/ Len(stack') >= k /\ stack'[k].kont = "ignored"
                   /\ stack'[k].parsed = <<>>
              \/ Len(stack') = k - 1 /\ pc' = "top"

(* C18: a directive whose name is in IgnoreDirectives is in no tree; the step
   that meets its terminator leaves the payload, the config, the errors, the
   include queue and the enclosing frames as they were before the directive,
   at the top of the loop of the same block and context; while its block is
   read nothing of that changes and nothing is added to a tree; and when its
   closing brace is read the parser is back at the top of the loop of that
   same frame. *)
C18_IgnoredIsAbsent == []C18_Tree /\ [][C18_Step]_vars

(* include { foo } foo ; with include ignored: the tree is the second foo *)
C18_Witness ==
  /\ outcome = "payload" /\ ~options.ErrorOnUnknownDirectives
  /\ options.IgnoreDirectives = <<"include">>
  /\ lx.n = MaxTokIgn
  /\ raised = 0
  /\ Len(payload.Config[1].Parsed) = 1
  /\ payload.Config[1].Parsed[1].Directive = "foo"
  /\ payload.Config[1].Parsed[1].Block = Nil

(***************************************************************************)
(* Parse with a FileOpener: the files of the opener and the files of the   *)
(* host are two sets.                                                      *)
(***************************************************************************)
MaxTokOpen == 4

OpenerFiles == {RootFile, FileA}

ScnOpen ==
  [alpha |-> {Bare("include"), Bare("a.conf"), Bare("?.conf"), Bare("foo"),
              Bare(";")},
   maxTok |-> MaxTokOpen, maxLine |-> 1,
   cfgs |-> {[DefaultOptions EXCEPT !.Open = TRUE]}
              \X {[root |-> RootFile, host |-> h, virt |-> OpenerFiles,
                   text |-> Nil] :
                    h \in {{RootFile}, OpenerFiles, {RootFile, FileA, FileB}}}]

InitOpen == InitParse(ScnOpen)

SpecOpen == InitOpen /\ [][Next]_vars

(* the path an include directive names: parse.go 257-260 *)
IncludePattern(d) ==
  IF ~IsAbs(d.Args[1]) THEN Join(Dir(fsys.root), d.Args[1]) ELSE d.Args[1]

(* the files an include would name if the opener's files were the only ones *)
ThroughOpener(d) ==
  IF hasMagic(IncludePattern(d)) THEN Glob(IncludePattern(d), fsys.virt).fnames
  ELSE IF IncludePattern(d) \in fsys.virt THEN <<IncludePattern(d)>>
  ELSE <<>>

(* C19: with a FileOpener, what Parse finds is decided by the opener's files
   alone, whatever the host's files are: every include directive lists the
   indexes of the files its pattern names among the opener's files, every
   file queued is one of the opener's, and Parse does not fail on a file
   that cannot be opened. *)
C19_OpenerDecides ==
  options.Open =>
    /\ \A d \in PayloadNodes \cup FrameNodes :
         (d.Directive = "include" /\ d.Includes # Nil /\ Len(d.Args) >= 1) =>
           /\ Len(Deref(d.Includes)) = Len(ThroughOpener(d))
           /\ \A i \in DOMAIN ThroughOpener(d) :
                /\ ThroughOpener(d)[i] \in DOMAIN included
                /\ Deref(d.Includes)[i] = included[ThroughOpener(d)[i]]
    /\ DOMAIN included \subseteq fsys.virt
    /\ outcome # "error"

(***************************************************************************)
(* prepareIfArgs called on its own.                                        *)
(***************************************************************************)
MaxIfArgs == 3

IfArgWords == {"(", ")", "()", "($a", "$a", "a)", "($a)", "=", "( a"}

IfArgLists ==
  UNION {[1..n -> IfArgWords] : n \in 0..MaxIfArgs}
    \cup {<<"($scheme", "=", "http)">>}

InitIfArgs ==
  /\ Parked
  /\ \E args \in IfArgLists :
       call = Call("prepareIfArgs", [Directive("if", 1) EXCEPT !.Args = args])

(* stmt = prepareIfArgs(stmt) *)
PrepareIfArgs ==
  /\ call.op = "prepareIfArgs" /\ ~call.done
  /\ call' = [call EXCEPT !.out = prepareIfArgs(call.in), !.done = TRUE]
  /\ UNCHANGED <<options, fsys, input, includes, included, payload, config, stack,
                 pc, outcome, retErr, lx, ev, raised, opened, handles, pipe, sent, drained, builds>>

NextIfArgs == PrepareIfArgs

SpecIfArgs == InitIfArgs /\ [][NextIfArgs]_vars

(* the first argument without its opening parenthesis and the last without
   its closing one *)
Stripped(args) ==
  LET a1 == [args EXCEPT ![1] = TrimLeftSpace(TrimPrefix(@, "("))]
  IN  [a1 EXCEPT ![Len(args)] = TrimRightSpace(TrimSuffix(@, ")"))]

DropEmptyFirst(args) == IF args # <<>> /\ args[1] = "" THEN Tail(args) ELSE args

DropEmptyLast(args) ==
  IF args # <<>> /\ args[Len(args)] = "" THEN SubSeq(args, 1, Len(args) - 1)
  ELSE args

Normalised(args) ==
  IF Len(args) > 0 /\ HasPrefix(args[1], "(") /\ HasSuffix(args[Len(args)], ")")
  THEN DropEmptyLast(DropEmptyFirst(Stripped(args)))
  ELSE args

(* C20: prepareIfArgs returns the directive with its arguments normalised:
   the parentheses around the first and last argument stripped and a first or
   last argument left empty dropped, when the first starts with ( and the
   last ends with ); the arguments as they were otherwise. *)
C20_IfArgs ==
  (call.op = "prepareIfArgs" /\ call.done) =>
    /\ ~call.out.panic
    /\ call.out.d.Args = Normalised(call.in.Args)
    /\ call.out.d = [call.in EXCEPT !.Args = call.out.d.Args]

(***************************************************************************)
(* tokenize called on its own, on the texts over a few characters.         *)
(***************************************************************************)
MaxText == 4

TextChars == {"a", " ", "\n", "$", "{", "}", ";", "\"", "#", "\\"}

RECURSIVE Concat(_)
Concat(chars) == IF chars = <<>> THEN "" ELSE Head(chars) \o Concat(Tail(chars))

Texts == UNION {{Concat(f) : f \in [1..n -> TextChars]} : n \in 0..MaxText}

InitTokenize ==
  /\ Parked
  /\ \E text \in Texts : call = Call("tokenize", text)

(* for t := range tokenize(reader) *)
Tokenize ==
  /\ call.op = "tokenize" /\ ~call.done
  /\ call' = [call EXCEPT !.out = tokenize(call.in), !.done = TRUE]
  /\ UNCHANGED <<options, fsys, input, includes, included, payload, config, stack,
                 pc, outcome, retErr, lx, ev, raised, opened, handles, pipe, sent, drained, builds>>

NextTokenize == Tokenize

SpecTokenize == InitTokenize /\ [][NextTokenize]_vars

(* a whitespace character of s that no backslash escapes *)
RECURSIVE HasUnescapedSpace(_)
HasUnescapedSpace(s) ==
  IF Len(s) = 0 THEN FALSE
  ELSE IF SubSeq(s, 1, 1) = "\\" THEN HasUnescapedSpace(SubSeq(s, 3, Len(s)))
  ELSE IsSpaceChar(SubSeq(s, 1, 1)) \/ HasUnescapedSpace(SubSeq(s, 2, Len(s)))

(* C21: no token of tokenize that is neither quoted nor a comment holds a
   whitespace character that is not escaped. *)
C21_NoSpaceInBareword ==
  (call.op = "tokenize" /\ call.done) =>
    \A i \in DOMAIN call.out :
      (~call.out[i].IsQuoted /\ ~HasPrefix(call.out[i].Value, "#")) =>
        ~HasUnescapedSpace(call.out[i].Value)

(***************************************************************************)
(* File handles.  The reader fileOpen returns is handed to lex and no      *)
(* statement of Parse closes it; the handle of the existence probe of an   *)
(* explicit include is closed in the statement after its opening, within   *)
(* the step of resolveInclude.                                             *)
(***************************************************************************)
(* C22: when Parse takes the next file from its queue, and when it returns,
   every file it has opened is closed. *)
C22_ClosedBeforeNext ==
  (pc = "idle" \/ outcome \in {"payload", "error"}) => handles = {}

(***************************************************************************)
(* Parse on files that include themselves and each other, the root file    *)
(* named as it is in the directory and with a leading "./".                *)
(***************************************************************************)
MaxTokCyc == 6

CycleFiles == {"nginx.conf", "a.conf"}

ScnCycle ==
  [alpha |-> {Bare("include"), Bare("nginx.conf"), Bare("a.conf"), Bare(";")},
   maxTok |-> MaxTokCyc, maxLine |-> 1,
   cfgs |-> {DefaultOptions}
              \X {[root |-> r, host |-> CycleFiles, virt |-> CycleFiles,
                   text |-> Nil] : r \in {"nginx.conf", "./nginx.conf"}}]

InitCycle == InitParse(ScnCycle)

(* every step Parse can take is taken *)
SpecCycle == InitCycle /\ [][Next]_vars /\ WF_vars(Next)

(* the paths taken from the queue so far, and those still in it *)
PathsQueued ==
  [i \in DOMAIN payload.Config |-> payload.Config[i].File]
    \o (IF pc \in {"top", "args"} THEN <<config.File>> ELSE <<>>)
    \o [i \in DOMAIN includes |-> includes[i].path]

C23_Once ==
  /\ \A i, j \in DOMAIN PathsQueued : PathsQueued[i] = PathsQueued[j] => i = j
  /\ \A i, j \in DOMAIN payload.Config :
       Clean(payload.Config[i].File) = Clean(payload.Config[j].File) => i = j

(* C23: no path is put in the queue twice, no file is parsed twice, and
   Parse, without CombineConfigs, returns. *)
C23_CyclesBroken == []C23_Once /\ <>(outcome # "running")

(***************************************************************************)
(* Error recovery and the braces of the source.                            *)
(***************************************************************************)
(* the calls of parse under the one of the file are as many as the braces
   open in the tokens read *)
Aligned == pc \in {"top", "args"} => Len(stack) - 1 = lx.depth

(* C24: without StopParsingOnError, the step that records an error of the
   analyser leaves the parser in the block the braces of the source put it
   in: if the nesting of the calls of parse was the nesting of the braces
   before the statement's terminator, it is after it. *)
C24_Step ==
  (/\ ~options.StopParsingOnError
   /\ ev'.kind = "analyzeError"
   /\ Aligned) => Aligned'

C24_RecoveryAligned == [][C24_Step]_vars

(***************************************************************************)
(* Termination of Parse.  A receive on the closed channel of the lexer     *)
(* never blocks, so every step of Parse that can be taken is taken.        *)
(***************************************************************************)
SpecFair == Init /\ [][Next]_vars /\ WF_vars(Next)

(* C25: Parse ends: it returns a payload or an error (or panics). *)
C25_Terminates == <>(outcome # "running")

(***************************************************************************)
(* Errors of the lexer, wherever the parser is.                            *)
(***************************************************************************)
(* balanceBraces closes its channel with the braces out of balance only
   after it has sent its error token: part_004 40-61 *)
LexErrorSent == lx.closed /\ lx.depth # 0

LastConfig == payload.Config[Len(payload.Config)]

(* C26: without StopParsingOnError, once the lexer has sent its error token
   for a file Parse does not fail, and when the parse of the file is over its
   config is the last of the payload, is failed, and holds an error of the
   lexer. *)
C26_LexErrorOnConfig ==
  (LexErrorSent /\ ~options.StopParsingOnError) =>
    /\ outcome \in {"running", "payload"}
    /\ pc = "idle" =>
         /\ payload.Config # <<>>
         /\ LastConfig.Status = "failed"
         /\ \E i \in DOMAIN LastConfig.Errors :
              \/ HasPrefix(LastConfig.Errors[i].Error, "unexpected \"}\"")
              \/ HasPrefix(LastConfig.Errors[i].Error, "unexpected end of file")

(***************************************************************************)
(* Parse on the text of one file: the tokens are those of tokenize.        *)
(***************************************************************************)
MaxWords == 5

Words == {"location", "foo", "{", "}", ";"}

RECURSIVE TextOf(_)
TextOf(ws) == IF ws = <<>> THEN "" ELSE Head(ws) \o " " \o TextOf(Tail(ws))

WordTexts == UNION {{TextOf(f) : f \in [1..n -> Words]} : n \in 0..MaxWords}

ScnText ==
  [alpha |-> {}, maxTok |-> 0, maxLine |-> 0,
   cfgs |-> {DefaultOptions}
              \X {[HostOnly({RootFile}) EXCEPT !.text = Some(t)] : t \in WordTexts}]

InitText == InitParse(ScnText)

SpecText == InitText /\ [][Next]_vars

(* the tokens of the file that have not been received *)
TokensLeft == IF lx.fixed = Nil THEN <<>> ELSE Deref(lx.fixed)

(* C27: when the parse of a file is over and Parse goes on or returns its
   payload, no token of the file is left unread. *)
C27_AllTokensRead ==
  (pc = "idle" /\ outcome \in {"running", "payload"} /\ DOMAIN opened # {}) =>
    TokensLeft = <<>>

(***************************************************************************)
(* The first argument of an include.                                       *)
(***************************************************************************)
(* the statement in hand when Parse failed *)
FailedOn ==
  IF outcome = "panic" /\ stack # <<>> /\ pc = "args"
  THEN Some(Top(Machine).stmt) ELSE Nil

(* C28: Parse does not fail on the first argument of an include that has no
   argument. *)
C28_IncludeHasArg ==
  FailedOn # Nil =>
    ~(/\ ~options.SingleFile
      /\ Deref(FailedOn).Directive = "include"
      /\ Deref(FailedOn).Args = <<>>)

(***************************************************************************)
(* Combining the payload of Parse when a file includes itself.             *)
(***************************************************************************)
(* C30: with CombineConfigs, Parse returns once its queue is empty: the
   combining of its payload ends. *)
C30_CombineReturns == options.CombineConfigs => outcome # "hang"

(***************************************************************************)
(* The goroutines of lex, one process each: readChars, escapeChars,        *)
(* lineCount, tokenize, balanceBraces, and the parser that receives.  The  *)
(* channels have no buffer: a send and its receive are one step.  A stage  *)
(* closes its channel in the step that ends its loop.                      *)
(***************************************************************************)
MaxPipeText == 3

PipeChars == {"a", " ", "\n", "$", "{", "}", ";", "\"", "#", "\\"}

PipeTexts == UNION {{Concat(f) : f \in [1..n -> PipeChars]} : n \in 0..MaxPipeText}

ZeroCharLine == [char |-> "", line |-> 0]

(* the stages range over their input: the state of each before its first
   channel operation *)
NewPipe(text) ==
  [text |-> text,
   r |-> [pc |-> IF text = "" THEN "done" ELSE "send", rest |-> readChars(text)],
   e |-> [pc |-> "recv", char |-> ""],
   l |-> [pc |-> "recv", cl |-> ZeroCharLine, line |-> 1],
   t |-> [pc |-> "range", token |-> "", tokenLine |-> 0, startLine |-> 0,
          cl |-> ZeroCharLine, quote |-> "", out |-> ZeroToken, after |-> ""],
   b |-> [pc |-> "recv", depth |-> 0, line |-> 0, t |-> ZeroToken],
   p |-> [pc |-> "recv", got |-> <<>>, why |-> ""]]

InitPipe ==
  /\ options = DefaultOptions
  /\ fsys = HostOnly({RootFile})
  /\ input = [alpha |-> {}, maxTok |-> 0, maxLine |-> 0]
  /\ includes = <<>>
  /\ included = <<>>
  /\ payload = NewPayload
  /\ config = NewConfig("")
  /\ stack = <<>>
  /\ pc = "pipe"
  /\ outcome = "running"
  /\ retErr = Nil
  /\ lx = [depth |-> 0, line |-> 0, closed |-> TRUE, n |-> 0, cmt |-> FALSE,
           spin |-> 0, fixed |-> Nil]
  /\ ev = NoEvent
  /\ raised = 0
  /\ opened = <<>>
  /\ handles = {}
  /\ sent = <<>>
  /\ drained = <<>>
  /\ builds = <<>>
  /\ call = NoCall
  /\ \E text \in PipeTexts : pipe = NewPipe(text)

(* escapeChars, part_004 215-223: the character to send, or the next receive *)
EscOut(e, char) ==
  IF char = "\r" \/ char = "\\\r" THEN [e EXCEPT !.pc = "recv", !.char = ""]
  ELSE [e EXCEPT !.pc = "send", !.char = char]

(* tokenize at a send: c <- ngxToken{...}, and where it goes on after it *)
SendTok(t, value, line, quoted, after) ==
  [t EXCEPT !.pc = "send", !.out = ngxToken(value, line, quoted), !.after = after]

(* part_004 169-173: after the loop *)
Final(t) ==
  IF t.token # "" THEN SendTok(t, t.token, t.tokenLine, FALSE, "close")
  ELSE [t EXCEPT !.pc = "done"]

(* part_004 135-149: the inside of a quoted string, up to the next receive *)
QLoop(t, cl) ==
  IF cl.char # t.quote
  THEN [t EXCEPT !.token = @ \o (IF cl.char = "\\" \o t.quote THEN t.quote
                                 ELSE cl.char),
                 !.pc = "q"]
  ELSE SendTok(t, t.token, t.tokenLine, TRUE, "range")

(* part_004 124-166: quotes, special characters, any other character *)
Body3(t0, cl) ==
  LET t == [t0 EXCEPT !.cl = cl]
  IN  IF cl.char = "\"" \/ cl.char = "'"
      THEN IF Len(t.token) > 0
           THEN [t EXCEPT !.token = @ \o cl.char, !.pc = "range"]
           ELSE [t EXCEPT !.quote = cl.char, !.pc = "q0"]
      ELSE IF cl.char = "{" \/ cl.char = "}" \/ cl.char = ";"
      THEN IF Len(t.token) > 0
           THEN SendTok(t, t.token, t.tokenLine, FALSE, "spec")
           ELSE SendTok(t, cl.char, cl.line, FALSE, "range")
      ELSE [t EXCEPT !.token = @ \o cl.char, !.pc = "range"]

(* part_004 114-121: the loop of a parameter expansion, up to the next receive *)
ExpLoop(t, cl) ==
  IF ~HasSuffix(t.token, "}") /\ ~isSpace(cl.char)
  THEN [t EXCEPT !.token = @ \o cl.char, !.pc = "exp"]
  ELSE Body3(t, cl)

(* part_004 98-106: the loop of a comment, up to the next receive *)
CmtLoop(t, cl) ==
  IF HasSuffix(cl.char, "\n") THEN SendTok(t, t.token, t.startLine, FALSE, "range")
  ELSE [t EXCEPT !.token = @ \o cl.char, !.pc = "cmt"]

(* part_004 95-121: the body of the loop after its whitespace part *)
Body2(t0, cl) ==
  LET t == [t0 EXCEPT !.cl = cl]
  IN  IF Len(t.token) = 0 /\ cl.char = "#"
      THEN CmtLoop([t EXCEPT !.startLine = cl.line], cl)
      ELSE LET t1 == [t EXCEPT !.tokenLine = IF Len(t.token) = 0 THEN cl.line ELSE @]
           IN  IF Len(t1.token) > 0 /\ HasSuffix(t1.token, "$") /\ cl.char = "{"
               THEN ExpLoop(t1, cl)
               ELSE Body3(t1, cl)

(* part_004 79-93: the body of the loop on the character the range received *)
Body(t0, cl) ==
  LET t == [t0 EXCEPT !.cl = cl]
  IN  IF isSpace(cl.char)
      THEN IF Len(t.token) > 0
           THEN SendTok(t, t.token, t.tokenLine, FALSE, "skip0")
           ELSE [t EXCEPT !.pc = "skip"]
      ELSE Body2(t, cl)

(* tokenize has received cl, ok at the receive it was waiting at *)
TokRecv(t, cl, ok) ==
  CASE t.pc = "range" -> IF ~ok THEN Final(t) ELSE Body(t, cl)
    [] t.pc = "skip" -> IF ~ok THEN Body2(t, ZeroCharLine)
                        ELSE IF isSpace(cl.char) THEN [t EXCEPT !.cl = cl]
                        ELSE Body2(t, cl)
    [] t.pc = "cmt" -> IF ~ok THEN SendTok(t, t.token, t.startLine, FALSE, "range")
                       ELSE CmtLoop(t, cl)
    [] t.pc = "exp" -> IF ~ok THEN Body3(t, ZeroCharLine) ELSE ExpLoop(t, cl)
    [] t.pc = "q0" -> IF ~ok THEN Final(t) ELSE QLoop(t, cl)
    [] t.pc = "q" -> IF ~ok THEN SendTok(t, t.token, t.tokenLine, TRUE, "range")
                     ELSE QLoop(t, cl)

(* tokenize after its send was received *)
TokSent(t) ==
  LET t1 == [t EXCEPT !.token = ""]
  IN  CASE t.after = "skip0" -> [t1 EXCEPT !.pc = "skip"]
        [] t.after = "range" -> [t1 EXCEPT !.pc = "range"]
        [] t.after = "spec" -> SendTok(t1, t.cl.char, t.cl.line, FALSE, "range")
        [] t.after = "close" -> [t1 EXCEPT !.pc = "done"]

(* balanceBraces has received t: part_004 31-50 *)
BalRecv(b, t) ==
  LET depth == balanceDepth(b.depth, t)
  IN  [b EXCEPT !.depth = depth, !.line = t.Line, !.t = t,
                !.pc = IF depth < 0 THEN "sendErr" ELSE "send"]

Rest == <<options, fsys, input, includes, included, payload, config, stack, pc,
          outcome, retErr, lx, ev, raised, opened, handles, sent, drained, builds,
          call>>

(* readChars -> escapeChars: c <- scanner.Text(), or the channel is closed *)
ChanChars ==
  /\ pc = "pipe" /\ pipe.e.pc \in {"recv", "recv2"} /\ pipe.r.pc \in {"send", "done"}
  /\ LET ok == pipe.r.pc = "send"
         c == IF ok THEN Head(pipe.r.rest) ELSE ""
         r1 == IF ok
               THEN [rest |-> Tail(pipe.r.rest),
                     pc |-> IF Tail(pipe.r.rest) = <<>> THEN "done" ELSE "send"]
               ELSE pipe.r
         e1 == IF pipe.e.pc = "recv2" THEN EscOut(pipe.e, pipe.e.char \o c)
               ELSE IF ~ok THEN [pipe.e EXCEPT !.pc = "done"]
               ELSE IF c = "\\" THEN [pipe.e EXCEPT !.pc = "recv2", !.char = c]
               ELSE EscOut(pipe.e, c)
     IN  pipe' = [pipe EXCEPT !.r = r1, !.e = e1]
  /\ UNCHANGED Rest

(* escapeChars -> lineCount *)
ChanEscaped ==
  /\ pc = "pipe" /\ pipe.l.pc = "recv" /\ pipe.e.pc \in {"send", "done"}
  /\ IF pipe.e.pc = "send"
     THEN LET line == IF HasSuffix(pipe.e.char, "\n") THEN pipe.l.line + 1
                      ELSE pipe.l.line
          IN  pipe' = [pipe EXCEPT !.e = [@ EXCEPT !.pc = "recv", !.char = ""],
                                   !.l = [pc |-> "send", line |-> line,
                                          cl |-> [char |-> pipe.e.char,
                                                  line |-> line]]]
     ELSE pipe' = [pipe EXCEPT !.l.pc = "done"]
  /\ UNCHANGED Rest

(* lineCount -> tokenize *)
ChanLines ==
  /\ pc = "pipe"
  /\ pipe.t.pc \in {"range", "skip", "cmt", "exp", "q0", "q"}
  /\ pipe.l.pc \in {"send", "done"}
  /\ IF pipe.l.pc = "send"
     THEN pipe' = [pipe EXCEPT !.l.pc = "recv", !.t = TokRecv(@, pipe.l.cl, TRUE)]
     ELSE pipe' = [pipe EXCEPT !.t = TokRecv(@, ZeroCharLine, FALSE)]
  /\ UNCHANGED Rest

(* tokenize -> balanceBraces *)
ChanRaw ==
  /\ pc = "pipe" /\ pipe.b.pc = "recv" /\ pipe.t.pc \in {"send", "done"}
  /\ IF pipe.t.pc = "send"
     THEN pipe' = [pipe EXCEPT !.t = TokSent(@), !.b = BalRecv(@, pipe.t.out)]
     ELSE pipe' = [pipe EXCEPT !.b.pc = IF pipe.b.depth > 0 THEN "sendEOF"
                                       ELSE "done"]
  /\ UNCHANGED Rest

(* balanceBraces -> the parser: for t := range tokens, which parse leaves on
   an error token *)
ChanTokens ==
  /\ pc = "pipe" /\ pipe.p.pc = "recv"
  /\ pipe.b.pc \in {"send", "sendErr", "sendEOF", "done"}
  /\ LET b == pipe.b
         t == CASE b.pc = "send" -> b.t
                [] b.pc = "sendErr" -> ErrorToken("unexpected \"}\"", b.line)
                [] b.pc = "sendEOF" ->
                     ErrorToken("unexpected end of file, expecting \"}\"", b.line)
                [] OTHER -> ZeroToken
     IN  IF b.pc = "done"
         THEN pipe' = [pipe EXCEPT !.p.pc = "stopped", !.p.why = "end"]
         ELSE pipe' = [pipe EXCEPT
                         !.b.pc = IF b.pc = "send" THEN "recv" ELSE "done",
                         !.p = [pc |-> IF t.Error # Nil THEN "stopped" ELSE "recv",
                                why |-> IF t.Error # Nil THEN "error" ELSE "",
                                got |-> Append(pipe.p.got, t)]]
  /\ UNCHANGED Rest

(* parse returns before the end of the stream: an error under
   StopParsingOnError, a } at the top level *)
Abort ==
  /\ pc = "pipe" /\ pipe.p.pc = "recv" /\ pipe.p.got # <<>>
  /\ pipe' = [pipe EXCEPT !.p.pc = "stopped", !.p.why = "abort"]
  /\ UNCHANGED Rest

NextPipe == ChanChars \/ ChanEscaped \/ ChanLines \/ ChanRaw \/ ChanTokens \/ Abort

SpecPipe == InitPipe /\ [][NextPipe]_vars

(* a stage that waits at a send nobody will receive *)
StuckB == pipe.b.pc \in {"send", "sendErr", "sendEOF"} /\ pipe.p.pc = "stopped"
StuckT == pipe.t.pc = "send" /\ (pipe.b.pc = "done" \/ StuckB)
StuckL == pipe.l.pc = "send" /\ (pipe.t.pc = "done" \/ StuckT)
StuckE == pipe.e.pc = "send" /\ (pipe.l.pc = "done" \/ StuckL)
StuckR == pipe.r.pc = "send" /\ (pipe.e.pc = "done" \/ StuckE)

(* C29: no stage of the lexer waits for ever at a send: none is at a send
   whose receiver has returned or itself waits for ever. *)
C29_NoStageBlocked ==
  pc = "pipe" => ~(StuckB \/ StuckT \/ StuckL \/ StuckE \/ StuckR)

====
